---- MODULE Spec2Model ----
(***************************************************************************)
(* Identity merge, persistence and scoring of the AI Specialist Finder.    *)
(*                                                                         *)
(* The store is the `journalists` table (database/models.py) as the        *)
(* sequence of its rows in primary-key order: the row with id i is         *)
(* store[i].  Rows are never deleted, so ids are 1..Len(store).            *)
(*                                                                         *)
(* A Python value that may be None is a sequence of length at most one:    *)
(* None is << >> and the value v is <<v>>.  A dict is a pair of its key    *)
(* set and its values, so that an absent key and a key holding None stay   *)
(* apart (dict.get treats them alike, update_journalist does not).         *)
(*                                                                         *)
(* Scores are fixed point numbers, 10000 standing for 1.0.                 *)
(***************************************************************************)
EXTENDS Integers, Sequences, FiniteSets, TLC

VARIABLES
    store,      \* the committed rows of table journalists, by id
    last,       \* the last call of the database manager: arguments, store before, result
    calls,      \* number of calls made so far
    sess,       \* per thread: the session of its add_journalist call in progress
    start,      \* the store when the threads were started
    profile,    \* the profile dict a caller holds and hands to the scoring engines
    results,    \* the calls of the scoring engines so far: engine, dict given,
                \* dict afterwards, value returned; during run_full_search:
                \* its results dict
    run,        \* the position of run_full_search and what is configured
    agent       \* the RevolutionaryBaseAgent: status, events, queue, worker

vars == <<store, last, calls, sess, start, profile, results, run, agent>>

---------------------------------------------------------------------------
(* Bounds *)

MaxCalls == 3
NumThreads == 2

---------------------------------------------------------------------------
(* Python values *)

None == << >>
Some(v) == <<v>>

\* Columns of Journalist.  twitter_handle, linkedin_url, website_url, city and
\* timezone are plain nullable String columns exactly like country and are
\* left out; id is the row's index; created_at / last_updated are timestamps.
StrCols == {"name", "email", "bio", "current_publication", "job_title",
            "specializations", "country", "source_platform"}
IntCols == {"article_count", "twitter_followers", "linkedin_connections",
            "citation_count", "h_index", "publication_count"}
BoolCols == {"programming_expertise", "is_verified"}
ScoreCols == {"reputation_score", "ai_relevance_score"}
Columns == StrCols \cup IntCols \cup BoolCols \cup ScoreCols

\* Column(..., default=...): the value an INSERT gives a column for which the
\* object holds no value (SQLAlchemy leaves a None attribute out of the
\* INSERT, so an explicit None gets the default too).
ColumnDefault(c) ==
    IF c \in ScoreCols THEN Some(0)
    ELSE IF c \in IntCols THEN Some(0)
    ELSE IF c \in BoolCols THEN Some(FALSE)
    ELSE None

\* Strings are TLA+ strings; the character at position i is SubSeq(s, i, i).
Char(s, i) == SubSeq(s, i, i)

\* The characters str.strip() and str.split() take for white space.
Whitespace == {" ", "\t", "\n", "\r", "\f"}

\* s.strip() == ""
IsBlankStr(s) == \A i \in 1..Len(s) : Char(s, i) \in Whitespace

\* bool(x) of an optional string: neither None nor ''.
Truthy(o) == o # None /\ o[1] # ""

---------------------------------------------------------------------------
(* Incoming dicts *)

\* The value of key 'specializations' in a raw dict is a list of strings, a
\* string, None, or a list with an entry that is no string: kind says which;
\* a string s is kept as items = <<s>>, and SpecMixed(items) is the list of
\* the strings items followed by the number 7.
NoSpec == [kind |-> "none", items |-> << >>]
SpecList(items) == [kind |-> "list", items |-> items]
SpecStr(s) == [kind |-> "str", items |-> <<s>>]
SpecMixed(items) == [kind |-> "mixed", items |-> items]

RECURSIVE JoinQuoted(_)
JoinQuoted(items) ==
    IF Len(items) = 0 THEN ""
    ELSE IF Len(items) = 1 THEN "\"" \o items[1] \o "\""
    ELSE "\"" \o items[1] \o "\", " \o JoinQuoted(Tail(items))

\* json.dumps of a list of strings.
JsonDumps(items) == "[" \o JoinQuoted(items) \o "]"

\* json.dumps of the list SpecMixed(items).
JsonDumpsMixed(items) ==
    IF Len(items) = 0 THEN "[7]" ELSE "[" \o JoinQuoted(items) \o ", 7]"

\* dict.get(key): None when the key is absent.
Get(d, k) == IF k \in d.keys THEN d.v[k] ELSE None

\* Mutant: a list is stored by its first entry, not as JSON text.
ConvertSpecializations_First(raw) ==
    LET s == raw.v["specializations"]
        conv == IF s.kind \in {"list", "mixed"}
                THEN (IF Len(s.items) = 0 THEN Some("") ELSE Some(s.items[1]))
                ELSE IF s.kind = "str" THEN Some(s.items[1])
                ELSE None
    IN [keys |-> raw.keys, v |-> [raw.v EXCEPT !["specializations"] = conv]]

\* "if 'specializations' in data and isinstance(data['specializations'], list):
\*      data['specializations'] = json.dumps(data['specializations'])"
\* The result holds an optional string under every column key.
ConvertSpecializations(raw) ==
    LET s == raw.v["specializations"]
        conv == IF s.kind = "list" THEN Some(JsonDumps(s.items))
                ELSE IF s.kind = "mixed" THEN Some(JsonDumpsMixed(s.items))
                ELSE IF s.kind = "str" THEN Some(s.items[1])
                ELSE None
    IN [keys |-> raw.keys, v |-> [raw.v EXCEPT !["specializations"] = conv]]

---------------------------------------------------------------------------
(* DatabaseManager.add_journalist *)

Min(S) == CHOOSE x \in S : \A y \in S : x <= y

\* session.query(Journalist).filter(Journalist.<col> == value).first():
\* the id of the first row holding the value, 0 when there is none.
FirstBy(st, col, value) ==
    LET hits == {i \in 1..Len(st) : st[i][col] = value}
    IN IF hits = {} THEN 0 ELSE Min(hits)

\* Mutant: the name is looked up before the email.
FindExisting_NameFirst(st, d) ==
    LET byName == IF Truthy(Get(d, "name"))
                  THEN FirstBy(st, "name", Get(d, "name")) ELSE 0
    IN IF byName # 0 THEN byName
       ELSE IF Truthy(Get(d, "email"))
            THEN FirstBy(st, "email", Get(d, "email")) ELSE 0

\* Lines 45-49: by email when the incoming email is truthy, and when that
\* finds nothing, by name when the incoming name is truthy.
FindExisting(st, d) ==
    LET byEmail == IF Truthy(Get(d, "email"))
                   THEN FirstBy(st, "email", Get(d, "email")) ELSE 0
    IN IF byEmail # 0 THEN byEmail
       ELSE IF Truthy(Get(d, "name"))
            THEN FirstBy(st, "name", Get(d, "name")) ELSE 0

\* Mutant: every incoming value that is not None is assigned.
MergeField_Overwrite(key, current, value) ==
    IF value = None THEN current ELSE value

\* Mutant: only a NULL column is a gap, a blank string is not.
MergeField_NullOnly(key, current, value) ==
    IF value = None THEN current
    ELSE IF current = None THEN value
    ELSE IF key \in ScoreCols /\ value[1] > current[1] THEN value
    ELSE current

\* Mutant: an incoming score replaces the stored one whenever it differs.
MergeField_ScoreAssign(key, current, value) ==
    IF value = None THEN current
    ELSE IF current = None \/ (key \in StrCols /\ IsBlankStr(current[1])) THEN value
    ELSE IF key \in ScoreCols /\ value[1] # current[1] THEN value
    ELSE current

\* Mutant: a stored 0 or False counts as a gap, like a blank string.
MergeField_ZeroGap(key, current, value) ==
    IF value = None THEN current
    ELSE IF \/ current = None
            \/ (key \in StrCols /\ IsBlankStr(current[1]))
            \/ (key \in IntCols /\ current[1] = 0)
            \/ (key \in BoolCols /\ current[1] = FALSE)
         THEN value
    ELSE IF key \in ScoreCols /\ value[1] > current[1] THEN value
    ELSE current

\* Lines 61-67 for one key of the incoming dict that is a column.
MergeField(key, current, value) ==
    IF value = None THEN current
    ELSE IF current = None \/ (key \in StrCols /\ IsBlankStr(current[1])) THEN value
    ELSE IF key \in ScoreCols /\ value[1] > current[1] THEN value
    ELSE current

\* Lines 60-67: the loop over the incoming items; hasattr(existing, key)
\* holds for the columns only.
Merged(existing, d) ==
    [c \in Columns |-> IF c \in d.keys THEN MergeField(c, existing[c], d.v[c])
                       ELSE existing[c]]

\* Journalist(**data) followed by the INSERT.
NewRow(d) ==
    [c \in Columns |-> IF c \in d.keys /\ d.v[c] # None THEN d.v[c]
                       ELSE ColumnDefault(c)]

\* email = Column(String(255), unique=True): NULLs are distinct in SQL.
UniqueEmail(st) ==
    \A i, j \in 1..Len(st) :
        (i # j /\ st[i]["email"] # None) => st[i]["email"] # st[j]["email"]

\* name = Column(String(255), nullable=False)
NameNotNull(st) == \A i \in 1..Len(st) : st[i]["name"] # None

\* Mutant: the email column is not declared unique.
IntegrityOK_NoUnique(st) == NameNotNull(st)

IntegrityOK(st) == UniqueEmail(st) /\ NameNotNull(st)

\* Mutant: the failed transaction is not rolled back.
Commit_NoRollback(pre, pending, dbError) ==
    IF dbError \/ ~IntegrityOK(pending)
    THEN [ok |-> FALSE, store |-> pending, exc |-> "SQLAlchemyError"]
    ELSE [ok |-> TRUE, store |-> pending, exc |-> ""]

\* session.commit() inside try / except SQLAlchemyError: session.rollback().
\* pending is the store as the session's flush would leave it; dbError says
\* that the store raises for a reason of its own (unavailable, locked).
\* exc is the exception the commit raised inside the handler, "" for none.
Commit(pre, pending, dbError) ==
    IF dbError \/ ~IntegrityOK(pending)
    THEN [ok |-> FALSE, store |-> pre, exc |-> "SQLAlchemyError"]
    ELSE [ok |-> TRUE, store |-> pending, exc |-> ""]

\* The whole of add_journalist: the store after the call, the id of the row
\* returned (0 for none), the exception raised inside the call, and how the
\* call ended:
\*   "updated" / "created": the Journalist returned,
\*   "none": None returned (the except SQLAlchemyError branch),
\*   "raised": Journalist(**data) raised TypeError on a key that is no
\*             attribute of Journalist; nothing in add_journalist catches it.
add_journalist(st, raw, dbError) ==
    LET d == ConvertSpecializations(raw)
        ex == FindExisting(st, d)
    IN IF ex # 0
       THEN LET c == Commit(st, [st EXCEPT ![ex] = Merged(st[ex], d)], dbError)
            IN [store |-> c.store, id |-> IF c.ok THEN ex ELSE 0,
                res |-> IF c.ok THEN "updated" ELSE "none", exc |-> c.exc]
       ELSE IF d.keys \ Columns # {}
       THEN [store |-> st, id |-> 0, res |-> "raised", exc |-> "TypeError"]
       ELSE LET c == Commit(st, Append(st, NewRow(d)), dbError)
            IN [store |-> c.store, id |-> IF c.ok THEN Len(st) + 1 ELSE 0,
                res |-> IF c.ok THEN "created" ELSE "none", exc |-> c.exc]

\* The whole of update_journalist: every key of the dict that is a column is
\* assigned, None included.
update_journalist(st, jid, raw, dbError) ==
    IF jid \notin 1..Len(st)
    THEN [store |-> st, id |-> 0, res |-> "none", exc |-> ""]
    ELSE LET d == ConvertSpecializations(raw)
             row == [c \in Columns |-> IF c \in d.keys THEN d.v[c] ELSE st[jid][c]]
             c == Commit(st, [st EXCEPT ![jid] = row], dbError)
         IN [store |-> c.store, id |-> IF c.ok THEN jid ELSE 0,
             res |-> IF c.ok THEN "updated" ELSE "none", exc |-> c.exc]

---------------------------------------------------------------------------
(* Inputs *)

\* The dict with the items of the record f (a key of f that is no column
\* stands for a key that is no attribute of Journalist).
Dict(f) ==
    [keys |-> DOMAIN f,
     v |-> [c \in Columns |->
              IF c \in DOMAIN f THEN f[c]
              ELSE IF c = "specializations" THEN NoSpec ELSE None]]

EmptyDict == [keys |-> {}, v |-> [c \in Columns |-> IF c = "specializations" THEN NoSpec ELSE None]]


\* Values the scrapers put into the dicts.
Ann == "Ann Lee"
Bo == "Bo Chen"
AnnMail == "ann@example.com"
BioAI == "AI journalist covering machine learning"

\* The dicts handed to add_journalist.
AddInputs ==
    { Dict([name |-> Some(Ann)]),
      Dict([name |-> Some(Ann), email |-> Some(AnnMail), country |-> None]),
      Dict([name |-> Some(Ann), email |-> Some(AnnMail), country |-> Some("France")]),
      Dict([name |-> Some(Ann), email |-> Some(AnnMail), country |-> Some("Germany")]),
      Dict([name |-> Some(Bo)]),
      Dict([name |-> Some(Bo), email |-> Some(AnnMail)]),
      Dict([email |-> Some(AnnMail), bio |-> Some(BioAI)]),
      Dict([name |-> Some(Ann), bio |-> Some(BioAI)]),
      Dict([name |-> Some(Ann), bio |-> Some(" ")]),
      Dict([name |-> Some(Ann), email |-> Some("")]),
      Dict([name |-> Some(Bo), email |-> Some("")]),
      Dict([name |-> Some("")]),
      Dict([bio |-> Some(BioAI)]),
      Dict([name |-> Some(Ann), reputation_score |-> Some(7000), ai_relevance_score |-> Some(3000)]),
      Dict([name |-> Some(Ann), reputation_score |-> Some(3000), ai_relevance_score |-> Some(7000)]),
      Dict([name |-> Some(Bo), profile_picture |-> None, linkedin_id |-> Some("bo-1")]),
      Dict([name |-> Some(Ann), specializations |-> SpecList(<<"technology", "robotics">>)]),
      Dict([name |-> Some(Ann), specializations |-> SpecStr("technology")]),
      Dict([name |-> Some(Ann), article_count |-> Some(5), is_verified |-> Some(TRUE)]) }

\* The dicts handed to update_journalist.
UpdateInputs ==
    { Dict([bio |-> Some("Updated bio for testing")]),
      Dict([email |-> Some(AnnMail)]),
      Dict([name |-> None, country |-> Some("Germany")]),
      Dict([reputation_score |-> Some(1000), specializations |-> SpecList(<<"technology">>)]),
      Dict([specializations |-> SpecStr("[\"nlp\", \"robotics\"]")]) }

\* The calls during which the store itself raises.
FailingAdds == { Dict([name |-> Some(Ann), email |-> Some(AnnMail), country |-> Some("France")]),
                 Dict([name |-> Some(Bo)]) }
FailingUpdates == { Dict([bio |-> Some("Updated bio for testing")]) }

---------------------------------------------------------------------------
(* The database manager, called sequentially *)

NoCall ==
    [op |-> "init", jid |-> 0, data |-> EmptyDict, dbError |-> FALSE,
     pre |-> << >>, res |-> "none", id |-> 0, exc |-> ""]

Init ==
    /\ store = << >>
    /\ last = NoCall
    /\ calls = 0
    /\ sess = << >>
    /\ start = << >>
    /\ profile = EmptyDict
    /\ results = << >>
    /\ run = << >>
    /\ agent = << >>

AddJournalist(raw, dbError) ==
    /\ calls < MaxCalls
    /\ LET r == add_journalist(store, raw, dbError)
       IN /\ store' = r.store
          /\ last' = [op |-> "add_journalist", jid |-> 0, data |-> raw,
                      dbError |-> dbError, pre |-> store, res |-> r.res, id |-> r.id,
                      exc |-> r.exc]
    /\ calls' = calls + 1
    /\ UNCHANGED <<agent, sess, start, profile, results, run>>

UpdateJournalist(jid, raw, dbError) ==
    /\ calls < MaxCalls
    /\ LET r == update_journalist(store, jid, raw, dbError)
       IN /\ store' = r.store
          /\ last' = [op |-> "update_journalist", jid |-> jid, data |-> raw,
                      dbError |-> dbError, pre |-> store, res |-> r.res, id |-> r.id,
                      exc |-> r.exc]
    /\ calls' = calls + 1
    /\ UNCHANGED <<agent, sess, start, profile, results, run>>

Next ==
    \/ \E raw \in AddInputs : AddJournalist(raw, FALSE)
    \/ \E raw \in FailingAdds : AddJournalist(raw, TRUE)
    \/ \E jid \in 1..Len(store) + 1, raw \in UpdateInputs : UpdateJournalist(jid, raw, FALSE)
    \/ \E jid \in 1..Len(store), raw \in FailingUpdates : UpdateJournalist(jid, raw, TRUE)

Spec == Init /\ [][Next]_vars

TypeOK ==
    /\ calls \in 0..MaxCalls
    /\ \A i \in 1..Len(store) : DOMAIN store[i] = Columns
---------------------------------------------------------------------------
(* Properties of the database manager *)

IsAdd == last.op = "add_journalist"
IsUpdate == last.op = "update_journalist"

\* The dict of the last call as the handler sees it after line 57 / 75.
LastDict == ConvertSpecializations(last.data)

\* The row of the store before the last add_journalist that the call
\* resolved to, 0 when it resolved to none.
LastMatch == FindExisting(last.pre, LastDict)

\* A column value that is neither NULL nor a blank string.
Populated(c, val) == val # None /\ (c \in StrCols => ~IsBlankStr(val[1]))

\* Every row of the store before the last call, except row i, is unchanged.
OthersUnchanged(i) ==
    /\ Len(store) >= Len(last.pre)
    /\ \A j \in 1..Len(last.pre) : j # i => store[j] = last.pre[j]

FranceScenario ==
    LET a == Dict([name |-> Some(Ann), email |-> Some(AnnMail), country |-> None])
        b == Dict([name |-> Some(Ann), email |-> Some(AnnMail), country |-> Some("France")])
        c == Dict([name |-> Some(Ann), email |-> Some(AnnMail), country |-> Some("Germany")])
        s1 == add_journalist(<< >>, a, FALSE).store
        s2 == add_journalist(s1, b, FALSE).store
        s3 == add_journalist(s2, c, FALSE).store
    IN Len(s3) = 1 /\ s1[1]["country"] = None /\ s3[1]["country"] = Some("France")

OnlyKeyAndBio ==
    /\ last.data.keys \in {{"email", "bio"}, {"name", "bio"}}
    /\ Get(last.data, "bio") # None

\* C2: merge fill-gap law.  When add_journalist matches a stored row whose
\* bio is NULL or blank and the incoming dict holds only its identity key and
\* a bio, the row's bio becomes the incoming bio, every other column of the
\* row is unchanged and so is every other row; no row is added.
C2_FillGap ==
    (/\ IsAdd /\ ~last.dbError
     /\ OnlyKeyAndBio
     /\ LastMatch # 0
     /\ ~Populated("bio", last.pre[LastMatch]["bio"]))
    => /\ last.res = "updated" /\ last.id = LastMatch
       /\ Len(store) = Len(last.pre)
       /\ store[LastMatch]["bio"] = Get(last.data, "bio")
       /\ \A c \in Columns \ {"bio"} : store[LastMatch][c] = last.pre[LastMatch][c]
       /\ OthersUnchanged(LastMatch)

\* A row with a NULL bio, matched by email alone, has had its bio filled.
C2_Witness ==
    /\ IsAdd /\ last.res = "updated"
    /\ last.data.keys = {"email", "bio"}
    /\ last.pre[last.id]["bio"] = None
    /\ store[last.id]["bio"] = Some(BioAI)
    /\ Len(store) = 2

ScoreMax(stored, incoming) ==
    IF incoming = None THEN stored
    ELSE IF stored = None THEN incoming
    ELSE IF incoming[1] > stored[1] THEN incoming ELSE stored

\* C3: merge score-improves law.  When add_journalist merges into a stored
\* row, each of the two scores becomes the maximum of the stored and the
\* incoming value; and no add_journalist call, however it ends, lowers a
\* stored score.
C3_ScoreImproves ==
    IsAdd =>
      /\ last.res = "updated" =>
           \A c \in ScoreCols :
               store[last.id][c] = ScoreMax(last.pre[last.id][c], Get(last.data, c))
      /\ Len(store) >= Len(last.pre)
      /\ \A i \in 1..Len(last.pre) : \A c \in ScoreCols :
           last.pre[i][c] # None =>
               /\ store[i][c] # None
               /\ store[i][c][1] >= last.pre[i][c][1]

\* One merge has met a lower incoming reputation (kept the stored one) and a
\* higher incoming relevance (replaced the stored one).
C3_Witness ==
    /\ IsAdd /\ last.res = "updated"
    /\ last.pre[last.id]["reputation_score"] = Some(7000)
    /\ Get(last.data, "reputation_score") = Some(3000)
    /\ store[last.id]["reputation_score"] = Some(7000)
    /\ last.pre[last.id]["ai_relevance_score"] = Some(3000)
    /\ Get(last.data, "ai_relevance_score") = Some(7000)
    /\ store[last.id]["ai_relevance_score"] = Some(7000)

\* C4: idempotence of merge.  From every reachable store and for every
\* incoming dict, add_journalist called twice in a row with the dict leaves
\* the store that one call leaves.
C4_Idempotent ==
    \A raw \in AddInputs :
        LET once == add_journalist(store, raw, FALSE).store
        IN add_journalist(once, raw, FALSE).store = once

\* The incoming email is non-empty and row i of the store before the call
\* holds it.
EmailHit(i) ==
    /\ Truthy(Get(last.data, "email"))
    /\ i \in 1..Len(last.pre)
    /\ last.pre[i]["email"] = Get(last.data, "email")

NameHits ==
    IF Truthy(Get(last.data, "name"))
    THEN {i \in 1..Len(last.pre) : last.pre[i]["name"] = Get(last.data, "name")}
    ELSE {}

\* C5: identity lookup order.  add_journalist merges into the row holding the
\* incoming non-empty email; only when no row holds it, into the first row
\* holding the incoming non-empty name; when neither exists it merges into
\* none.  With the email in row A and the name in another row B, A alone is
\* merged into, B is unchanged and no row is created.
C5_LookupOrder ==
    (IsAdd /\ ~last.dbError) =>
      /\ \A i \in 1..Len(last.pre) : EmailHit(i) =>
           /\ last.res = "updated" /\ last.id = i
           /\ Len(store) = Len(last.pre)
           /\ OthersUnchanged(i)
      /\ ((\A i \in 1..Len(last.pre) : ~EmailHit(i)) /\ NameHits # {}) =>
           /\ last.res \in {"updated", "none"}
           /\ last.res = "updated" => last.id = Min(NameHits)
           /\ Len(store) = Len(last.pre)
           /\ OthersUnchanged(Min(NameHits))
      /\ ((\A i \in 1..Len(last.pre) : ~EmailHit(i)) /\ NameHits = {}) =>
           last.res # "updated"

\* The incoming email is in row A and the incoming name in another row B:
\* A was merged into, B and the number of rows are as before.
C5_Witness ==
    /\ IsAdd /\ last.res = "updated"
    /\ EmailHit(last.id)
    /\ \E j \in NameHits : j # last.id /\ store[j] = last.pre[j]
    /\ Len(store) = Len(last.pre)

\* C6: email uniqueness.  In every reachable state no two rows hold the same
\* non-NULL email, whatever add_journalist and update_journalist calls were
\* made and however they ended; and an add_journalist whose non-empty email
\* is already stored creates no row: it returns the row holding the email.
C6_EmailUnique ==
    /\ \A i, j \in 1..Len(store) :
         (i # j /\ store[i]["email"] # None) => store[i]["email"] # store[j]["email"]
    /\ IsAdd =>
         \A i \in 1..Len(last.pre) : EmailHit(i) =>
             /\ Len(store) = Len(last.pre)
             /\ last.res # "created"
             /\ last.res = "updated" => last.id = i

\* update_journalist was asked to give a row the email another row holds:
\* the store refused and both rows are as before.
C6_Witness ==
    /\ IsUpdate /\ last.exc = "SQLAlchemyError" /\ ~last.dbError
    /\ Get(last.data, "email") = Some(AnnMail)
    /\ \E i \in 1..Len(store) : i # last.jid /\ store[i]["email"] = Some(AnnMail)
    /\ store[last.jid]["email"] # Some(AnnMail)

\* C7: no-match case.  An add_journalist whose dict has a non-empty name and
\* resolves to no stored row stores a new row and returns it, unless the
\* store raises; a dict is rejected only for lacking a name.
C7_NoMatchCreates ==
    (/\ IsAdd
     /\ Truthy(Get(last.data, "name"))
     /\ LastMatch = 0
     /\ last.exc # "SQLAlchemyError")
    => /\ last.res = "created"
       /\ Len(store) = Len(last.pre) + 1
       /\ store[Len(store)]["name"] = Get(last.data, "name")

---------------------------------------------------------------------------
(* add_journalist called from several threads *)

\* Each thread runs one add_journalist call on the shared DatabaseManager.
\* get_session() gives every call a session of its own (line 42): the row the
\* call loaded is the session's private copy, and nothing in add_journalist
\* locks.  The statements of a call are atomic, the calls interleave between
\* them: the query by email (line 47), the query by name (line 49), and the
\* flush and commit (line 69 or 79).
Threads == 1..NumThreads

NoRow == [c \in Columns |-> None]

\* The dicts of the concurrent calls.
ConcInputs ==
    { Dict([name |-> Some(Ann), reputation_score |-> Some(7000)]),
      Dict([name |-> Some(Ann), reputation_score |-> Some(3000), country |-> Some("France")]),
      Dict([name |-> Some(Ann), bio |-> Some(BioAI)]),
      Dict([name |-> Some(Ann), email |-> Some(AnnMail), country |-> Some("Germany")]),
      Dict([name |-> Some(Ann), email |-> Some(AnnMail), bio |-> Some(BioAI)]) }

\* The identity key of a dict: its email when non-empty, else its name.
KeyOf(raw) ==
    IF Truthy(Get(raw, "email")) THEN <<"email", Get(raw, "email")>>
    ELSE <<"name", Get(raw, "name")>>

\* The stores the threads may find: empty, or holding the record of an
\* earlier (sequential) add_journalist.
ConcStores ==
    {<< >>} \cup {add_journalist(<< >>, raw, FALSE).store : raw \in ConcInputs}

InitConc ==
    /\ store \in ConcStores
    /\ start = store
    /\ last = NoCall
    /\ calls = 0
    /\ sess \in [Threads -> {[pc |-> "email", data |-> raw, ex |-> 0, row |-> NoRow,
                              res |-> "none", id |-> 0] : raw \in ConcInputs}]
    /\ \A t, u \in Threads : KeyOf(sess[t].data) = KeyOf(sess[u].data)
    /\ profile = EmptyDict
    /\ results = << >>
    /\ run = << >>
    /\ agent = << >>

\* Line 46-47.
QueryByEmail(t) ==
    /\ sess[t].pc = "email"
    /\ LET e == Get(sess[t].data, "email")
           ex == IF Truthy(e) THEN FirstBy(store, "email", e) ELSE 0
       IN sess' = [sess EXCEPT ![t].ex = ex,
                               ![t].row = IF ex # 0 THEN store[ex] ELSE NoRow,
                               ![t].pc = IF ex # 0 THEN "write" ELSE "name"]
    /\ UNCHANGED <<agent, store, last, calls, start, profile, results, run>>

\* Line 48-49.
QueryByName(t) ==
    /\ sess[t].pc = "name"
    /\ LET n == Get(sess[t].data, "name")
           ex == IF Truthy(n) THEN FirstBy(store, "name", n) ELSE 0
       IN sess' = [sess EXCEPT ![t].ex = ex,
                               ![t].row = IF ex # 0 THEN store[ex] ELSE NoRow,
                               ![t].pc = "write"]
    /\ UNCHANGED <<agent, store, last, calls, start, profile, results, run>>

\* The store after the flush of a session that loaded row ex as `row` and
\* assigned `merged` to it: UPDATE journalists SET <the columns whose value
\* the session changed> WHERE id = ex.
Flushed(st, ex, row, merged) ==
    [st EXCEPT ![ex] = [c \in Columns |-> IF merged[c] # row[c] THEN merged[c]
                                          ELSE st[ex][c]]]

\* Lines 51-71 (merge into the loaded row, commit) or 73-83 (insert, commit).
Write(t) ==
    /\ sess[t].pc = "write"
    /\ LET d == ConvertSpecializations(sess[t].data)
           ex == sess[t].ex
           r == IF ex # 0
                THEN LET c == Commit(store,
                                     Flushed(store, ex, sess[t].row, Merged(sess[t].row, d)),
                                     FALSE)
                     IN [store |-> c.store, id |-> IF c.ok THEN ex ELSE 0,
                         res |-> IF c.ok THEN "updated" ELSE "none"]
                ELSE IF d.keys \ Columns # {}
                THEN [store |-> store, id |-> 0, res |-> "raised"]
                ELSE LET c == Commit(store, Append(store, NewRow(d)), FALSE)
                     IN [store |-> c.store, id |-> IF c.ok THEN Len(store) + 1 ELSE 0,
                         res |-> IF c.ok THEN "created" ELSE "none"]
       IN /\ store' = r.store
          /\ sess' = [sess EXCEPT ![t].pc = "done", ![t].res = r.res, ![t].id = r.id]
    /\ UNCHANGED <<agent, last, calls, start, profile, results, run>>

NextConc ==
    \E t \in Threads : QueryByEmail(t) \/ QueryByName(t) \/ Write(t)

SpecConc == InitConc /\ [][NextConc]_vars

AllDone == \A t \in Threads : sess[t].pc = "done"

\* The stores that running the calls of the threads in T one after the other,
\* in some order, leaves from st.
RECURSIVE SequentialOutcomes(_, _)
SequentialOutcomes(st, T) ==
    IF T = {} THEN {st}
    ELSE UNION { SequentialOutcomes(add_journalist(st, sess[t].data, FALSE).store, T \ {t})
                 : t \in T }

\* The rows holding the identity key of the calls.
RowsOfKey ==
    LET k == KeyOf(sess[1].data)
    IN {i \in 1..Len(store) : store[i][k[1]] = k[2]}

\* C9: per-key serialization.  When concurrent add_journalist calls with the
\* same identity key have all returned, the store holds exactly one row for
\* the key and is the store that some sequential order of the calls leaves:
\* no duplicate row, no lost update.
C9_SerializedPerKey ==
    AllDone => /\ Cardinality(RowsOfKey) = 1
               /\ store \in SequentialOutcomes(start, Threads)
---------------------------------------------------------------------------
(* Text and arithmetic of the two scoring engines *)

\* Scores and weights are fixed point numbers with four decimals.
Unit == 100 * 100

Max2(a, b) == IF a >= b THEN a ELSE b
Min2(a, b) == IF a <= b THEN a ELSE b

\* Mutant: the final score is returned as computed.
Clamp_None(x) == x

\* "final_score = min(max(score, 0.0), 1.0)"
Clamp(x) == Min2(Max2(x, 0), Unit)

RECURSIVE SumSeq(_)
SumSeq(q) == IF Len(q) = 0 THEN 0 ELSE Head(q) + SumSeq(Tail(q))

UpperAZ == "ABCDEFGHIJKLMNOPQRSTUVWXYZ"
LowerAZ == "abcdefghijklmnopqrstuvwxyz"
WordAlphabet == UpperAZ \o LowerAZ \o "0123456789_"

\* The characters the regular expression class \w matches.
WordChars == {Char(WordAlphabet, i) : i \in 1..Len(WordAlphabet)}

LowerChar(c) ==
    IF \E i \in 1..Len(UpperAZ) : Char(UpperAZ, i) = c
    THEN Char(LowerAZ, CHOOSE i \in 1..Len(UpperAZ) : Char(UpperAZ, i) = c)
    ELSE c

\* str.lower(), half by half
RECURSIVE ToLower(_)
ToLower(s) ==
    IF Len(s) = 0 THEN ""
    ELSE IF Len(s) = 1 THEN LowerChar(s)
    ELSE ToLower(SubSeq(s, 1, Len(s) \div 2))
         \o ToLower(SubSeq(s, Len(s) \div 2 + 1, Len(s)))

\* sep.join(parts)
RECURSIVE Join(_, _)
Join(parts, sep) ==
    IF Len(parts) = 0 THEN ""
    ELSE IF Len(parts) = 1 THEN parts[1]
    ELSE parts[1] \o sep \o Join(Tail(parts), sep)

\* len(text.split())
WordCount(text) ==
    Cardinality({i \in 1..Len(text) :
                    /\ Char(text, i) \notin Whitespace
                    /\ (i = 1 \/ Char(text, i - 1) \in Whitespace)})

\* "sub in text"
Contains(text, sub) ==
    \E i \in 1..(Len(text) - Len(sub) + 1) : SubSeq(text, i, i + Len(sub) - 1) = sub

\* The regular expression assertion \b at the gap before position pos.
Boundary(text, pos) ==
    LET before == pos > 1 /\ Char(text, pos - 1) \in WordChars
        after == pos <= Len(text) /\ Char(text, pos) \in WordChars
    IN before # after

\* r'\b' + re.escape(kw) + r'\b' matches the lower-cased text at position i.
WordMatchAt(text, kw, i) ==
    /\ i + Len(kw) - 1 <= Len(text)
    /\ SubSeq(text, i, i + Len(kw) - 1) = kw
    /\ Boundary(text, i)
    /\ Boundary(text, i + Len(kw))

\* re.search(r'\b' + re.escape(kw) + r'\b', text, re.IGNORECASE)
WordSearch(text, kw) == \E i \in 1..Len(text) : WordMatchAt(text, kw, i)

\* len(re.findall(...)): the matches found scanning from the left, each
\* search resuming where the match before it ended.
RECURSIVE CountFrom(_, _, _)
CountFrom(text, kw, i) ==
    LET hits == {j \in i..Len(text) : WordMatchAt(text, kw, j)}
    IN IF hits = {} THEN 0
       ELSE 1 + CountFrom(text, kw, Min(hits) + Len(kw))

WordFindAllCount(text, kw) == CountFrom(text, kw, 1)

\* A regular expression of _is_explicit_ai_journalist as a sequence of
\* pieces: <<"lit", s>> the literal s, <<"opt", s>> s?, <<"ws", "">> \s+,
\* <<"any", "">> .* (any characters but newline).
RECURSIVE MatchHere(_, _, _, _)
MatchHere(pat, k, text, i) ==
    IF k > Len(pat) THEN TRUE
    ELSE LET kind == pat[k][1]
             lit == pat[k][2]
             litHere == /\ i + Len(lit) - 1 <= Len(text)
                        /\ SubSeq(text, i, i + Len(lit) - 1) = lit
         IN CASE kind = "lit" -> litHere /\ MatchHere(pat, k + 1, text, i + Len(lit))
              [] kind = "opt" -> \/ MatchHere(pat, k + 1, text, i)
                                 \/ litHere /\ MatchHere(pat, k + 1, text, i + Len(lit))
              [] kind = "ws" -> \E j \in (i + 1)..(Len(text) + 1) :
                                    /\ \A m \in i..(j - 1) : Char(text, m) \in Whitespace
                                    /\ MatchHere(pat, k + 1, text, j)
              [] kind = "any" -> \E j \in i..(Len(text) + 1) :
                                    /\ \A m \in i..(j - 1) : Char(text, m) # "\n"
                                    /\ MatchHere(pat, k + 1, text, j)

\* re.search(pattern, text, re.IGNORECASE) on a lower-cased text
RegexSearch(pat, text) == \E i \in 1..(Len(text) + 1) : MatchHere(pat, 1, text, i)

\* Fixed point logarithms.  Log2Fix(x) is log2(x) in units of 1/4096, to
\* twelve binary places, by repeated squaring of the mantissa.
Pow2(n) == 2 ^ n
FloorLog2(x) == CHOOSE k \in 0..30 : Pow2(k) <= x /\ x < Pow2(k + 1)

RECURSIVE FracBits(_, _)
FracBits(y, n) ==
    IF n = 0 THEN 0
    ELSE LET sq == (y * y) \div Pow2(12)
         IN IF sq >= Pow2(13)
            THEN Pow2(n - 1) + FracBits(sq \div 2, n - 1)
            ELSE FracBits(sq, n - 1)

Log2Fix(x) ==
    LET k == FloorLog2(x)
        y == IF k <= 12 THEN x * Pow2(12 - k) ELSE x \div Pow2(k - 12)
    IN k * Pow2(12) + FracBits(y, 12)

\* math.log10(a) / math.log10(b), in Units
LogRatio(a, b) == (Log2Fix(a) * Unit) \div Log2Fix(b)

\* math.log(n), in Units (ln 2 = 0.6931)
LnFix(n) == (Log2Fix(n) * 6931) \div Pow2(12)

\* math.exp(-n), in Units (1/e = 0.3679)
RECURSIVE ExpNeg(_)
ExpNeg(n) == IF n = 0 THEN Unit ELSE (ExpNeg(n - 1) * 3679) \div Unit
---------------------------------------------------------------------------
(* RelevanceScorer *)

\* _build_keyword_weights: keyword and weight
ai_keywords ==
    << <<"artificial intelligence", 10000>>, <<"machine learning", 10000>>,
       <<"deep learning", 9500>>, <<"neural networks", 9000>>,
       <<"natural language processing", 9000>>, <<"computer vision", 9000>>,
       <<"reinforcement learning", 8500>>,
       <<"automation", 7000>>, <<"robotics", 7500>>, <<"chatbot", 6000>>,
       <<"algorithm", 6500>>, <<"data science", 7000>>, <<"big data", 6000>>,
       <<"predictive analytics", 6500>>,
       <<"programming", 8000>>, <<"software development", 7500>>,
       <<"coding", 7000>>, <<"software engineering", 7500>>,
       <<"web development", 6000>>, <<"mobile development", 6000>>,
       <<"devops", 6500>>,
       <<"tech startup", 6000>>, <<"silicon valley", 5000>>,
       <<"innovation", 4000>>, <<"digital transformation", 6000>>,
       <<"cloud computing", 6500>>, <<"cybersecurity", 7000>>,
       <<"blockchain", 6000>>,
       <<"technology", 3000>>, <<"tech", 3000>>, <<"digital", 2500>>,
       <<"internet", 2000>>, <<"software", 4000>> >>

\* _build_programming_languages
programming_languages ==
    << <<"python", 9000>>, <<"r", 8000>>, <<"julia", 8000>>,
       <<"tensorflow", 9500>>, <<"pytorch", 9500>>, <<"scikit-learn", 9000>>,
       <<"javascript", 6000>>, <<"java", 6000>>, <<"c++", 7000>>,
       <<"scala", 7000>>, <<"go", 6000>>, <<"rust", 6000>>, <<"swift", 5000>>,
       <<"kotlin", 5000>>, <<"sql", 5000>>, <<"matlab", 7000>>,
       <<"hadoop", 7000>>, <<"spark", 8000>> >>

\* _build_tech_companies
tech_companies ==
    << <<"openai", 10000>>, <<"deepmind", 10000>>, <<"anthropic", 10000>>,
       <<"nvidia", 9000>>,
       <<"google", 8000>>, <<"microsoft", 8000>>, <<"amazon", 7000>>,
       <<"meta", 7000>>, <<"apple", 7000>>, <<"tesla", 8000>>,
       <<"uber", 6000>>, <<"airbnb", 5000>>, <<"spotify", 5000>>,
       <<"netflix", 6000>>, <<"salesforce", 6000>>, <<"oracle", 5000>>,
       <<"ibm", 7000>>, <<"intel", 7000>>, <<"amd", 6000>> >>

\* _build_ai_concepts
ai_concepts ==
    << <<"supervised learning", 9000>>, <<"unsupervised learning", 9000>>,
       <<"semi-supervised learning", 8500>>, <<"transfer learning", 8500>>,
       <<"generative ai", 9500>>, <<"large language model", 9500>>,
       <<"transformer", 9000>>, <<"gpt", 9000>>, <<"bert", 8500>>,
       <<"convolutional neural network", 9000>>,
       <<"recurrent neural network", 8500>>, <<"gradient descent", 8000>>,
       <<"backpropagation", 8000>>, <<"feature engineering", 7500>>,
       <<"model training", 8000>>, <<"hyperparameter tuning", 7500>>,
       <<"overfitting", 7000>>, <<"cross-validation", 7000>>,
       <<"ensemble methods", 7500>>, <<"random forest", 7000>>,
       <<"support vector machine", 7000>>, <<"k-means clustering", 6500>>,
       <<"decision tree", 6000>>, <<"linear regression", 6000>>,
       <<"logistic regression", 6000>> >>

\* _calculate_keyword_score
CalculateKeywordScore(text) ==
    LET word_count == WordCount(text)
        part == [i \in 1..Len(ai_keywords) |->
                    LET count == WordFindAllCount(text, ai_keywords[i][1])
                    IN IF count > 0
                       THEN (ai_keywords[i][2] * (Unit - ExpNeg(count))) \div Unit
                       ELSE 0]
        score == SumSeq(part)
    IN IF word_count = 0 THEN 0
       ELSE Min2((score * Unit) \div Max2(LnFix(word_count + 1), Unit), Unit)

\* The sum of the weights of the table's entries found in the text.
MentionedWeight(table, text) ==
    SumSeq([i \in 1..Len(table) |->
               IF WordSearch(text, table[i][1]) THEN table[i][2] ELSE 0])

\* _calculate_programming_score
CalculateProgrammingScore(text) ==
    Min2(MentionedWeight(programming_languages, text) \div 3, Unit)

\* _calculate_company_score
CalculateCompanyScore(text) ==
    Min2(MentionedWeight(tech_companies, text) \div 2, Unit)

\* _calculate_concept_score
CalculateConceptScore(text) ==
    Min2(MentionedWeight(ai_concepts, text) \div 5, Unit)

\* explicit_patterns of _is_explicit_ai_journalist
explicit_patterns ==
    << << <<"lit", "ai">>, <<"ws", "">>, <<"lit", "journalist">> >>,
       << <<"lit", "artificial">>, <<"ws", "">>, <<"lit", "intelligence">>,
          <<"ws", "">>, <<"lit", "reporter">> >>,
       << <<"lit", "machine">>, <<"ws", "">>, <<"lit", "learning">>,
          <<"ws", "">>, <<"lit", "correspondent">> >>,
       << <<"lit", "tech">>, <<"ws", "">>, <<"lit", "journalist">>,
          <<"any", "">>, <<"lit", "ai">> >>,
       << <<"lit", "ai">>, <<"any", "">>, <<"lit", "journalist">> >>,
       << <<"lit", "cover">>, <<"opt", "s">>, <<"ws", "">>,
          <<"lit", "artificial">>, <<"ws", "">>, <<"lit", "intelligence">> >>,
       << <<"lit", "specialize">>, <<"opt", "s">>, <<"ws", "">>,
          <<"lit", "in">>, <<"ws", "">>, <<"lit", "ai">> >>,
       << <<"lit", "focuse">>, <<"opt", "s">>, <<"ws", "">>, <<"lit", "on">>,
          <<"ws", "">>, <<"lit", "machine">>, <<"ws", "">>,
          <<"lit", "learning">> >> >>

\* _is_explicit_ai_journalist
IsExplicitAIJournalist(text) ==
    \E k \in 1..Len(explicit_patterns) : RegexSearch(explicit_patterns[k], text)

\* dict.get(key, ''): the default only stands in for an absent key.
GetOrEmpty(d, k) == IF k \in d.keys THEN d.v[k] ELSE Some("")

\* ' '.join(data.get('specializations', [])) when the value is a list,
\* else data.get('specializations', '')
SpecText(d) ==
    LET s == d.v["specializations"]
    IN IF "specializations" \notin d.keys THEN Some("")
       ELSE IF s.kind = "list" THEN Some(Join(s.items, " "))
       ELSE IF s.kind = "str" THEN Some(s.items[1])
       ELSE None

\* The inputs on which the body of calculate_ai_relevance_score raises:
\* ' '.join of a list with an entry that is no string.
RelevanceRaises(d) ==
    "specializations" \in d.keys /\ d.v["specializations"].kind = "mixed"

\* ' '.join(filter(None, text_sources)).lower()
CombinedText(d) ==
    LET text_sources == << GetOrEmpty(d, "bio"), GetOrEmpty(d, "job_title"),
                           SpecText(d), GetOrEmpty(d, "name") >>
        kept == SelectSeq(text_sources, Truthy)
    IN ToLower(Join([i \in 1..Len(kept) |-> kept[i][1]], " "))

\* Mutant: a text that yields no score gets the default 0.05.
calculate_ai_relevance_score_Floor(d) == 500

\* RelevanceScorer.calculate_ai_relevance_score; "except Exception: return 0.0"
calculate_ai_relevance_score(d) ==
    LET combined_text == CombinedText(d)
        weighted == (CalculateKeywordScore(combined_text) * 4000
                     + CalculateProgrammingScore(combined_text) * 2500
                     + CalculateCompanyScore(combined_text) * 2000
                     + CalculateConceptScore(combined_text) * 1500) \div Unit
        bonus == IF IsExplicitAIJournalist(combined_text) THEN 2000 ELSE 0
    IN IF RelevanceRaises(d) THEN 0
       ELSE IF IsBlankStr(combined_text) THEN 0
       ELSE Clamp(weighted + bonus)
---------------------------------------------------------------------------
(* ReputationAnalyzer *)

\* "x or 0" of an optional number
OrZero(o) == IF o = None THEN 0 ELSE o[1]

\* bool(x) of an optional boolean
IsTrue(o) == o # None /\ o[1]

SkipSpace(s, i) ==
    IF \E j \in i..Len(s) : Char(s, j) \notin Whitespace
    THEN Min({j \in i..Len(s) : Char(s, j) \notin Whitespace})
    ELSE Len(s) + 1

JsonDigits == {"0", "1", "2", "3", "4", "5", "6", "7", "8", "9"}

\* The elements of a JSON array of strings and natural numbers, read from
\* position i of s, which follows the opening bracket or a comma; ok is
\* FALSE when s is no such array; items are the strings read (acc the ones
\* read so far), strs is FALSE when a number was among the elements.  The
\* strings hold no escapes.
RECURSIVE ParseItems(_, _, _, _)
ParseItems(s, i, acc, strs) ==
    LET a == SkipSpace(s, i)
        isStr == a <= Len(s) /\ Char(s, a) = "\""
        isNum == a <= Len(s) /\ Char(s, a) \in JsonDigits
        closers == {j \in (a + 1)..Len(s) : Char(s, j) = "\""}
        nonDigits == {j \in a..Len(s) : Char(s, j) \notin JsonDigits}
        b == IF isStr THEN Min(closers)
             ELSE IF nonDigits = {} THEN Len(s) ELSE Min(nonDigits) - 1
        c == SkipSpace(s, b + 1)
        acc2 == IF isStr THEN Append(acc, SubSeq(s, a + 1, b - 1)) ELSE acc
        strs2 == strs /\ isStr
        bad == [ok |-> FALSE, items |-> << >>, strs |-> FALSE]
    IN IF ~isStr /\ ~isNum THEN bad
       ELSE IF isStr /\ closers = {} THEN bad
       ELSE IF c > Len(s) THEN bad
       ELSE IF Char(s, c) = "," THEN ParseItems(s, c + 1, acc2, strs2)
       ELSE IF Char(s, c) = "]" /\ SkipSpace(s, c + 1) > Len(s)
            THEN [ok |-> TRUE, items |-> acc2, strs |-> strs2]
       ELSE bad

\* json.loads(s) as _calculate_expertise_score uses it: kind "list" with the
\* strings of an array of strings, "mixed" for an array with a number in it,
\* "scalar" for a number, null, true or false (values a for loop cannot
\* iterate), "fail" when s is not JSON.  A JSON string counts as "fail": its
\* characters, like the text itself, are none of the high value
\* specializations.
JsonLoads(s) ==
    LET a == SkipSpace(s, 1)
        body == SubSeq(s, a, Len(s))
        open == SkipSpace(s, a + 1)
        fail == [kind |-> "fail", items |-> << >>]
    IN IF a > Len(s) THEN fail
       ELSE IF Char(s, a) = "["
            THEN IF open <= Len(s) /\ Char(s, open) = "]"
                    /\ SkipSpace(s, open + 1) > Len(s)
                 THEN [kind |-> "list", items |-> << >>]
                 ELSE LET r == ParseItems(s, a + 1, << >>, TRUE)
                      IN IF ~r.ok THEN fail
                         ELSE IF r.strs THEN [kind |-> "list", items |-> r.items]
                         ELSE [kind |-> "mixed", items |-> r.items]
       ELSE IF body \in {"null", "true", "false"}
               \/ \A j \in 1..Len(body) : Char(body, j) \in JsonDigits
            THEN [kind |-> "scalar", items |-> << >>]
       ELSE fail

\* Mutant: the count is taken by its magnitude.
CalculateArticleScore_Abs(article_count) ==
    IF article_count = 0 THEN 0
    ELSE Min2(LogRatio((IF article_count < 0 THEN -article_count ELSE article_count) + 1,
                       1000 + 1), Unit)

\* _calculate_article_score
CalculateArticleScore(article_count) ==
    IF article_count <= 0 THEN 0
    ELSE Min2(LogRatio(article_count + 1, 1000 + 1), Unit)

\* _calculate_social_score
CalculateSocialScore(twitter_followers, linkedin_connections) ==
    LET total_social == twitter_followers + linkedin_connections * 2
    IN IF total_social <= 0 THEN 0
       ELSE Min2(LogRatio(total_social + 1, 100000 + 1), Unit)

\* "any(pub in publication.lower() for pub in names)"
MentionsAny(publication, names) ==
    \E pub \in names : Contains(ToLower(publication), pub)

tier1_publications ==
    {"new york times", "wall street journal", "washington post", "reuters",
     "bloomberg", "financial times", "the guardian", "bbc", "cnn",
     "techcrunch", "wired", "ars technica", "the verge"}

tier2_publications ==
    {"forbes", "fortune", "business insider", "mashable", "engadget",
     "zdnet", "venturebeat", "recode", "axios", "fast company",
     "mit technology review", "ieee spectrum"}

tier3_publications ==
    {"techradar", "computerworld", "infoworld", "network world",
     "security week", "ai news", "machine learning mastery"}

academic_keywords == {"university", "institute", "research", "academic"}

major_publications == tier1_publications \cup {"forbes"}

\* _is_major_publication
IsMajorPublication(publication) ==
    Truthy(publication) /\ MentionsAny(publication[1], major_publications)

\* Mutant: the academic keywords are looked for before the tier 3 names.
CalculatePublicationQualityScore_AcademicFirst(publication) ==
    IF ~Truthy(publication) THEN 3000
    ELSE IF MentionsAny(publication[1], tier1_publications) THEN Unit
    ELSE IF MentionsAny(publication[1], tier2_publications) THEN 8000
    ELSE IF MentionsAny(publication[1], academic_keywords) THEN 7000
    ELSE IF MentionsAny(publication[1], tier3_publications) THEN 6000
    ELSE 4000

\* _calculate_publication_quality_score
CalculatePublicationQualityScore(publication) ==
    IF ~Truthy(publication) THEN 3000
    ELSE IF MentionsAny(publication[1], tier1_publications) THEN Unit
    ELSE IF MentionsAny(publication[1], tier2_publications) THEN 8000
    ELSE IF MentionsAny(publication[1], tier3_publications) THEN 6000
    ELSE IF MentionsAny(publication[1], academic_keywords) THEN 7000
    ELSE 4000

\* _calculate_engagement_score, for a twitter_followers value that is a
\* number (data.get('twitter_followers', 0))
CalculateEngagementScore(d) ==
    LET twitter_followers == OrZero(Get(d, "twitter_followers"))
        base_engagement == IF twitter_followers < 1000 THEN 8000
                           ELSE IF twitter_followers < 10000 THEN 6000
                           ELSE IF twitter_followers < 100000 THEN 4000
                           ELSE 2000
        verified == IF IsTrue(Get(d, "is_verified")) THEN 1000 ELSE 0
        major == IF IsMajorPublication(GetOrEmpty(d, "current_publication"))
                 THEN 1000 ELSE 0
    IN IF twitter_followers <= 0 THEN 5000
       ELSE Min2(base_engagement + verified + major, Unit)

\* _calculate_academic_score
CalculateAcademicScore(citation_count, h_index, publication_count) ==
    LET citation_score == Min2(LogRatio(Max2(citation_count, 1), 10000), Unit)
        h_index_score == Min2((h_index * Unit) \div 50, Unit)
        publication_score == Min2(LogRatio(Max2(publication_count, 1), 500), Unit)
    IN IF citation_count = 0 /\ h_index = 0 /\ publication_count = 0 THEN 0
       ELSE Min2((citation_score * 5000 + h_index_score * 3000
                  + publication_score * 2000) \div Unit, Unit)

high_value_specializations ==
    {"artificial intelligence", "machine learning", "programming",
     "data science", "cybersecurity", "robotics"}

\* The list _calculate_expertise_score iterates: data.get('specializations',
\* []), a string replaced by json.loads of it or, when that fails, by the
\* list holding the string.
ExpertiseSpecializations(d) ==
    LET s == d.v["specializations"]
        parsed == JsonLoads(s.items[1])
    IN IF "specializations" \notin d.keys \/ s.kind = "none" THEN << >>
       ELSE IF s.kind = "list" THEN s.items
       ELSE IF parsed.kind = "list" THEN parsed.items
       ELSE s.items

\* _calculate_expertise_score
CalculateExpertiseScore(ai_relevance_score, d) ==
    LET programming == IF IsTrue(Get(d, "programming_expertise")) THEN 2000 ELSE 0
        specializations == ExpertiseSpecializations(d)
        hits == {i \in 1..Len(specializations) :
                    ToLower(specializations[i]) \in high_value_specializations}
        specialization_bonus == Cardinality(hits) * 1000
    IN Min2(ai_relevance_score + programming + Min2(specialization_bonus, 3000),
            Unit)

\* The inputs on which the body of calculate_reputation_score raises:
\* "None <= 0" in _calculate_engagement_score when the key twitter_followers
\* holds None, and in _calculate_expertise_score "for spec in
\* specializations" over None or over a JSON scalar, and "spec.lower()" of an
\* entry that is no string.
ReputationRaises(d) ==
    \/ "twitter_followers" \in d.keys /\ d.v["twitter_followers"] = None
    \/ /\ "specializations" \in d.keys
       /\ \/ d.v["specializations"].kind \in {"none", "mixed"}
          \/ /\ d.v["specializations"].kind = "str"
             /\ JsonLoads(d.v["specializations"].items[1]).kind
                    \in {"scalar", "mixed"}

\* ReputationAnalyzer.calculate_reputation_score: the weights are
\* REPUTATION_WEIGHTS; "except Exception: return 0.0".
calculate_reputation_score(d) ==
    IF ReputationRaises(d) THEN 0
    ELSE CHOOSE reputation_score \in
        { Clamp(IF GetOrEmpty(d, "source_platform")
                      \in {Some("google_scholar"), Some("researchgate")}
                THEN (academic_score * 6000 + publication_score * 2000
                      + expertise_score * 1000) \div Unit + verification_bonus
                ELSE (article_score * 3000 + social_score * 2000
                      + engagement_score * 2000 + publication_score * 2000
                      + expertise_score * 1000) \div Unit + verification_bonus) :
            article_score \in {CalculateArticleScore(OrZero(Get(d, "article_count")))},
            social_score \in
                {CalculateSocialScore(OrZero(Get(d, "twitter_followers")),
                                      OrZero(Get(d, "linkedin_connections")))},
            engagement_score \in {CalculateEngagementScore(d)},
            publication_score \in
                {CalculatePublicationQualityScore(GetOrEmpty(d, "current_publication"))},
            expertise_score \in
                {CalculateExpertiseScore(OrZero(Get(d, "ai_relevance_score")), d)},
            academic_score \in
                {CalculateAcademicScore(OrZero(Get(d, "citation_count")),
                                        OrZero(Get(d, "h_index")),
                                        OrZero(Get(d, "publication_count")))},
            verification_bonus \in {IF IsTrue(Get(d, "is_verified")) THEN 1000 ELSE 0} } :
        TRUE
---------------------------------------------------------------------------
(* JournalistFinderAgent._process_and_store_journalist *)

\* journalist_data[key] = value
SetKey(d, k, value) == [keys |-> d.keys \cup {k}, v |-> [d.v EXCEPT ![k] = value]]

\* The dict as _process_and_store_journalist hands it to add_journalist: the
\* reputation is computed first, from the dict as the scraper left it, and
\* the relevance second.  Both engines catch their own exceptions and
\* return 0.0, so the "except Exception" branches around the two calls
\* (lines 199-201 and 206-208, scores 0.1 and 0.05) are never entered.
\* (The one-element sets bind each score once it is computed.)
Scored(raw) ==
    CHOOSE d \in
        { SetKey(withReputation, "ai_relevance_score",
                 Some(calculate_ai_relevance_score(withReputation))) :
            withReputation \in
                { SetKey(raw, "reputation_score",
                         Some(calculate_reputation_score(raw))) } } : TRUE

\* "journalist = self.db_manager.add_journalist(journalist_data)" and what
\* follows it; a TypeError of add_journalist is caught by the outer
\* "except Exception" and None is returned.
StoreScored(st, d, dbError) ==
    LET r == add_journalist(st, d, dbError)
    IN [store |-> r.store, id |-> r.id,
        res |-> IF r.res = "raised" THEN "none" ELSE r.res,
        exc |-> r.exc, data |-> d]

\* The whole of _process_and_store_journalist: the store after the call, the
\* id returned (0 for None), the dict at the end of the call, and how the
\* call ended:
\*   "skipped": the record has no name,
\*   "updated" / "created": add_journalist returned a Journalist,
\*   "none": add_journalist returned None, or raised (exc says what).
process_and_store_journalist(st, raw, dbError) ==
    IF ~Truthy(Get(raw, "name"))
    THEN [store |-> st, id |-> 0, res |-> "skipped", exc |-> "", data |-> raw]
    ELSE CHOOSE out \in {StoreScored(st, d, dbError) : d \in {Scored(raw)}} : TRUE

\* The records the scrapers hand to the ingestion.
IngestInputs ==
    { Dict([name |-> Some(Ann)]),
      Dict([name |-> Some(Ann), bio |-> Some(BioAI)]),
      Dict([name |-> Some(Ann), email |-> Some(AnnMail), job_title |-> Some("Senior Editor")]),
      Dict([name |-> Some(Ann), article_count |-> Some(120),
            current_publication |-> Some("Wired")]),
      Dict([name |-> Some(Bo), specializations |-> SpecList(<<"machine learning", "robotics">>),
            twitter_followers |-> Some(15000), is_verified |-> Some(TRUE),
            ai_relevance_score |-> Some(5000)]),
      Dict([name |-> Some(Bo), source_platform |-> Some("researchgate"),
            citation_count |-> Some(2500), h_index |-> Some(20),
            research_interests |-> None]),
      Dict([name |-> Some(Bo), specializations |-> SpecMixed(<<"robotics">>)]),
      Dict([name |-> Some(Ann), bio |-> Some(BioAI), twitter_followers |-> None]),
      Dict([name |-> Some(""), bio |-> Some(BioAI)]),
      Dict([bio |-> Some(BioAI)]) }

\* The ingestions during which the store itself raises.
FailingIngests == { Dict([name |-> Some(Ann), bio |-> Some(BioAI)]) }

ProcessAndStore(raw, dbError) ==
    /\ calls < MaxCalls
    /\ \E r \in {process_and_store_journalist(store, raw, dbError)} :
          /\ store' = r.store
          /\ last' = [op |-> "process_and_store", jid |-> 0, data |-> r.data,
                      dbError |-> dbError, pre |-> store, res |-> r.res, id |-> r.id,
                      exc |-> r.exc]
    /\ calls' = calls + 1
    /\ UNCHANGED <<agent, sess, start, profile, results, run>>

NextIngest ==
    \/ \E raw \in IngestInputs : ProcessAndStore(raw, FALSE)
    \/ \E raw \in FailingIngests : ProcessAndStore(raw, TRUE)

SpecIngest == Init /\ [][NextIngest]_vars

---------------------------------------------------------------------------
(* Properties of the ingestion *)

\* The stored fields of a row as a record for the engines: the columns that
\* are not NULL, the specializations as the stored text.
StoredFields(row) ==
    [keys |-> {c \in Columns : row[c] # None},
     v |-> [c \in Columns |->
              IF c # "specializations" THEN row[c]
              ELSE IF row[c] = None THEN NoSpec ELSE SpecStr(row[c][1])]]

\* The scores of a row are the ones the two engines compute from its fields.
ScoresDerived(row) ==
    /\ row["ai_relevance_score"] = Some(calculate_ai_relevance_score(StoredFields(row)))
    /\ row["reputation_score"] = Some(calculate_reputation_score(StoredFields(row)))

\* C10: after any sequence of ingestions through _process_and_store_journalist
\* every stored row's reputation_score and ai_relevance_score equal what the
\* two engines compute from the fields the row holds now.
C10_ScoresDerived == \A i \in 1..Len(store) : ScoresDerived(store[i])

\* The case of C10 in which the scoring order plays no part: the last ingestion
\* merged into a row whose scores were derived, its record carried no
\* relevance text, and the row's scores are derived afterwards.
C10_MergeKeepsDerived ==
    (/\ last.op = "process_and_store"
     /\ last.res = "updated"
     /\ ScoresDerived(last.pre[last.id])
     /\ Get(last.data, "ai_relevance_score") = Some(0))
    => ScoresDerived(store[last.id])

IsIngest == last.op = "process_and_store"

\* C11: when the computation of the reputation (the relevance) of an ingested
\* record raises an exception, the record goes to the store with the default
\* reputation 0.1 (relevance 0.05).  The keys that make an engine raise are
\* the same in the scored dict as in the record the engine was given.
C11_FailureSubstituted ==
    (IsIngest /\ last.res # "skipped")
    => /\ ReputationRaises(last.data)
            => Get(last.data, "reputation_score") = Some(1000)
       /\ RelevanceRaises(last.data)
            => Get(last.data, "ai_relevance_score") = Some(500)

\* C21: when _process_and_store_journalist scores a record, the expertise
\* component of the reputation is based on the relevance the Relevance Engine
\* computes for that record in that ingestion: the reputation put into the
\* dict is the one the engine gives for the dict that holds that relevance.
C21_ExpertiseFromEngine ==
    (IsIngest /\ last.res # "skipped" /\ ~ReputationRaises(last.data))
    => Get(last.data, "reputation_score") = Some(calculate_reputation_score(last.data))

---------------------------------------------------------------------------
(* The two engines, called on profiles *)

MaxScored == 2
MaxRepeat == 4

\* text * n
RECURSIVE Repeat(_, _)
Repeat(text, n) == IF n = 0 THEN "" ELSE text \o Repeat(text, n - 1)

\* The profiles of tests/test_analysis.py (edge cases) and of the scrapers.
negative_data ==
    Dict([twitter_followers |-> Some(-100), article_count |-> Some(-50),
          reputation_score |-> Some(-5000)])

long_text_data ==
    Dict([bio |-> Some(Repeat("artificial intelligence ", MaxRepeat)),
          specializations |-> SpecStr(Repeat("ai,ml,dl,", MaxRepeat))])

null_data ==
    Dict([name |-> None, bio |-> None, job_title |-> None,
          current_publication |-> None, is_verified |-> None,
          twitter_followers |-> None, specializations |-> NoSpec])

smith_data ==
    Dict([name |-> Some("A. Smith"),
          bio |-> Some("Senior AI reporter covering machine learning"),
          twitter_followers |-> Some(15000), is_verified |-> Some(TRUE),
          current_publication |-> Some("TechCrunch")])

top_data ==
    Dict([name |-> Some(Ann),
          bio |-> Some("AI journalist: machine learning, deep learning, robotics, programming, coding; Python, TensorFlow, PyTorch, scikit-learn; OpenAI, DeepMind; GPT, BERT, transformer"),
          article_count |-> Some(5000), twitter_followers |-> Some(500),
          linkedin_connections |-> Some(60000), is_verified |-> Some(TRUE),
          programming_expertise |-> Some(TRUE), ai_relevance_score |-> Some(Unit),
          current_publication |-> Some("Wired"),
          specializations |-> SpecList(<<"Machine Learning", "robotics", "Data Science">>)])

academic_data ==
    Dict([name |-> Some(Bo), source_platform |-> Some("google_scholar"),
          citation_count |-> Some(-5), h_index |-> Some(-100),
          publication_count |-> Some(40), article_count |-> Some(120)])

plain_data ==
    Dict([name |-> Some(Ann), current_publication |-> Some("Local Gazette"),
          article_count |-> Some(3)])

\* A profile read back from the store: the follower count is the column
\* default.
zero_data ==
    Dict([name |-> Some(Bo), twitter_followers |-> Some(0), is_verified |-> Some(TRUE),
          current_publication |-> Some("Forbes")])

Profiles ==
    {EmptyDict, negative_data, long_text_data, null_data, smith_data, top_data,
     academic_data, plain_data, zero_data}

\* The article counts a caller may put into the profile before a call.
ArticleCounts == {-50, 0, 3, 120, 5000}

Variants(p) == {p} \cup {SetKey(p, "article_count", Some(n)) : n \in ArticleCounts}

InitEngines ==
    /\ store = << >>
    /\ last = NoCall
    /\ calls = 0
    /\ sess = << >>
    /\ start = << >>
    /\ profile \in Profiles
    /\ results = << >>
    /\ run = << >>
    /\ agent = << >>

\* score = analyzer.calculate_reputation_score(p); caught says that the
\* engine's "except Exception" produced the value.
CalculateReputationScore(p) ==
    /\ Len(results) < MaxScored
    /\ results' = Append(results,
                         [engine |-> "calculate_reputation_score", given |-> p,
                          value |-> calculate_reputation_score(p),
                          caught |-> ReputationRaises(p)])
    /\ UNCHANGED <<agent, store, last, calls, sess, start, profile, run>>

\* score = scorer.calculate_ai_relevance_score(p)
CalculateAIRelevanceScore(p) ==
    /\ Len(results) < MaxScored
    /\ results' = Append(results,
                         [engine |-> "calculate_ai_relevance_score", given |-> p,
                          value |-> calculate_ai_relevance_score(p),
                          caught |-> RelevanceRaises(p)])
    /\ UNCHANGED <<agent, store, last, calls, sess, start, profile, run>>

NextEngines ==
    \/ \E p \in Variants(profile) : CalculateReputationScore(p)
    \/ CalculateAIRelevanceScore(profile)

SpecEngines == InitEngines /\ [][NextEngines]_vars

---------------------------------------------------------------------------
(* Properties of the engines *)

IsReputation(r) == r.engine = "calculate_reputation_score"
IsRelevance(r) == r.engine = "calculate_ai_relevance_score"

\* C12: for every profile (the empty one, null fields, negative counts, long
\* repeated text included) both engines return a value v with 0 <= v <= 1.
C12_RangeInvariant ==
    \A i \in 1..Len(results) : results[i].value >= 0 /\ results[i].value <= Unit

\* Both engines were called on a profile whose weighted sum lies above 1, and
\* returned 1.
C12_Witness ==
    /\ Len(results) = 2
    /\ results[1].given = top_data /\ IsReputation(results[1])
    /\ results[2].given = top_data /\ IsRelevance(results[2])
    /\ results[1].value = Unit /\ results[2].value = Unit

\* The profile has a number under article_count.
HasCount(d) == "article_count" \in d.keys /\ d.v["article_count"] # None

\* Two profiles that differ in nothing but the number under article_count.
SameButArticleCount(a, b) ==
    /\ HasCount(a) /\ HasCount(b)
    /\ a.keys = b.keys
    /\ [a.v EXCEPT !["article_count"] = None] = [b.v EXCEPT !["article_count"] = None]

\* C13: of two profiles that differ only in article_count, the one with the
\* larger count never gets the smaller reputation score, in general and in
\* academic mode, non-positive counts included.
C13_MonotonicArticleCount ==
    \A i, j \in 1..Len(results) :
        (/\ IsReputation(results[i]) /\ IsReputation(results[j])
         /\ SameButArticleCount(results[i].given, results[j].given)
         /\ results[i].given.v["article_count"][1] <= results[j].given.v["article_count"][1])
        => results[i].value <= results[j].value

\* The engine scored one profile with 120 articles and then with none left
\* (-50), and the first score is the larger one.
C13_Witness ==
    /\ Len(results) = 2
    /\ IsReputation(results[1]) /\ IsReputation(results[2])
    /\ results[1].given = SetKey(plain_data, "article_count", Some(120))
    /\ results[2].given = SetKey(plain_data, "article_count", Some(-50))
    /\ results[2].value < results[1].value

\* The values the engines returned for the empty profile.
EmptyValues == {results[i].value : i \in {k \in 1..Len(results) : results[k].given = EmptyDict}}

C16_SmithAboveHalf ==
    \A i \in 1..Len(results) :
        (IsRelevance(results[i]) /\ results[i].given = smith_data)
        => results[i].value > 5000

---------------------------------------------------------------------------
(* The threshold filters of the two engines *)

\* The key is in the dict (with a value or with None).
HasKey(d, k) == k \in d.keys

\* sorted(records, key=lambda x: x.get(col, 0), reverse=True): the sort is
\* stable, records with equal keys keep their order.
RECURSIVE SortDescBy(_, _)
SortDescBy(q, col) ==
    IF Len(q) = 0 THEN << >>
    ELSE LET sorted == SortDescBy(SubSeq(q, 1, Len(q) - 1), col)
             x == q[Len(q)]
             k == Cardinality({i \in 1..Len(sorted) :
                                  OrZero(Get(sorted[i], col)) >= OrZero(Get(x, col))})
         IN SubSeq(sorted, 1, k) \o <<x>> \o SubSeq(sorted, k + 1, Len(sorted))

\* bool(s) of an optional string given as a filter
Given(f) == Truthy(f)

\* "any(f.lower() in spec.lower() for spec in specializations)" raises: the
\* loop runs over None or a JSON scalar, or reaches an entry that is no
\* string before an entry that matches.
SpecializationMatches(d, f) ==
    \E i \in 1..Len(ExpertiseSpecializations(d)) :
        Contains(ToLower(ExpertiseSpecializations(d)[i]), ToLower(f[1]))

SpecializationRaises(d, f) ==
    /\ HasKey(d, "specializations")
    /\ LET s == d.v["specializations"]
       IN \/ s.kind = "none"
          \/ s.kind = "mixed" /\ ~SpecializationMatches(d, f)
          \/ /\ s.kind = "str"
             /\ \/ JsonLoads(s.items[1]).kind = "scalar"
                \/ /\ JsonLoads(s.items[1]).kind = "mixed"
                   /\ ~\E i \in 1..Len(JsonLoads(s.items[1]).items) :
                          Contains(ToLower(JsonLoads(s.items[1]).items[i]), ToLower(f[1]))

\* "if 'ai_relevance_score' not in journalist:
\*      journalist['ai_relevance_score'] = self.calculate_ai_relevance_score(journalist)"
WithRelevance(d) ==
    IF HasKey(d, "ai_relevance_score") THEN d
    ELSE SetKey(d, "ai_relevance_score", Some(calculate_ai_relevance_score(d)))

\* "if 'reputation_score' not in journalist: ..." of rank_journalists
WithReputation(d) ==
    IF HasKey(d, "reputation_score") THEN d
    ELSE SetKey(d, "reputation_score", Some(calculate_reputation_score(d)))

\* The records of a list, each after the missing relevance was put into it.
RECURSIVE AllWithRelevance(_)
AllWithRelevance(q) ==
    IF Len(q) = 0 THEN << >>
    ELSE <<WithRelevance(Head(q))>> \o AllWithRelevance(Tail(q))

\* The records of a list, each after the missing reputation was put into it.
RECURSIVE AllWithReputation(_)
AllWithReputation(q) ==
    IF Len(q) = 0 THEN << >>
    ELSE <<WithReputation(Head(q))>> \o AllWithReputation(Tail(q))

\* The record passes the threshold and the specialization filter.
KeepRelevant(d, min_relevance, specialization_filter) ==
    /\ d.v["ai_relevance_score"][1] >= min_relevance
    /\ Given(specialization_filter) => SpecializationMatches(d, specialization_filter)

\* The loop and the sort of find_relevant_journalists over records that
\* hold their relevance: "raised" when "relevance_score < min_relevance"
\* compares None, or the specialization filter raises, for a record the loop
\* reaches.
FilterRelevant(scored, min_relevance, specialization_filter) ==
    LET raises ==
            \E i \in 1..Len(scored) :
                \/ scored[i].v["ai_relevance_score"] = None
                \/ /\ scored[i].v["ai_relevance_score"][1] >= min_relevance
                   /\ Given(specialization_filter)
                   /\ SpecializationRaises(scored[i], specialization_filter)
    IN IF raises THEN [res |-> "raised", list |-> << >>]
       ELSE [res |-> "returned",
             list |-> SortDescBy(SelectSeq(scored,
                                           LAMBDA d : KeepRelevant(d, min_relevance,
                                                                   specialization_filter)),
                                 "ai_relevance_score")]

\* RelevanceScorer.find_relevant_journalists
find_relevant_journalists(journalists, min_relevance, specialization_filter) ==
    CHOOSE out \in
        { FilterRelevant(scored, min_relevance, specialization_filter) :
            scored \in {AllWithRelevance(journalists)} } : TRUE

\* The publication tier check of get_top_journalists_by_criteria.
PublicationTierPasses(d, publication_tier) ==
    LET pub_score == CalculatePublicationQualityScore(GetOrEmpty(d, "current_publication"))
    IN CASE publication_tier = Some(1) -> pub_score >= 9000
         [] publication_tier = Some(2) -> pub_score >= 7000
         [] publication_tier = Some(3) -> pub_score >= 5000
         [] OTHER -> TRUE

\* ReputationAnalyzer.rank_journalists, for records whose reputation, when
\* they carry one, is a number
rank_journalists(journalists) ==
    CHOOSE out \in
        { SortDescBy(scored, "reputation_score") :
            scored \in {AllWithReputation(journalists)} } : TRUE

\* The record passes the three checks of get_top_journalists_by_criteria; a
\* record without the key reputation_score counts as 0 in the first.
KeepTop(d, min_reputation, specialization, publication_tier) ==
    /\ OrZero(Get(d, "reputation_score")) >= min_reputation
    /\ Given(specialization) => SpecializationMatches(d, specialization)
    /\ PublicationTierPasses(d, publication_tier)

\* ReputationAnalyzer.get_top_journalists_by_criteria: "raised" when
\* "reputation_score < min_reputation" compares None, or the specialization
\* check raises, for a record the loop reaches.
get_top_journalists_by_criteria(journalists, min_reputation, specialization, publication_tier) ==
    LET raises ==
            \E i \in 1..Len(journalists) :
                \/ /\ HasKey(journalists[i], "reputation_score")
                   /\ journalists[i].v["reputation_score"] = None
                \/ /\ OrZero(Get(journalists[i], "reputation_score")) >= min_reputation
                   /\ Given(specialization)
                   /\ SpecializationRaises(journalists[i], specialization)
    IN IF raises THEN [res |-> "raised", list |-> << >>]
       ELSE [res |-> "returned",
             list |-> CHOOSE out \in
                          { rank_journalists(filtered) :
                              filtered \in {SelectSeq(journalists,
                                                      LAMBDA d : KeepTop(d, min_reputation,
                                                                         specialization,
                                                                         publication_tier))} } :
                          TRUE]

\* The records handed to the filters: with both scores, with one, with none,
\* and with scores that are None.
half_data ==
    Dict([name |-> Some(Ann), reputation_score |-> Some(5000),
          ai_relevance_score |-> Some(5000),
          specializations |-> SpecList(<<"Machine Learning">>)])

low_data ==
    Dict([name |-> Some(Bo), reputation_score |-> Some(3000),
          ai_relevance_score |-> Some(7000), current_publication |-> Some("Wired"),
          specializations |-> SpecStr("[\"robotics\"]")])

unscored_data ==
    Dict([name |-> Some("Cy Diaz"), reputation_score |-> None,
          ai_relevance_score |-> None])

FilterRecords == {smith_data, top_data, half_data, low_data, unscored_data}

\* The lists of at most two different records.
FilterLists ==
    {<< >>} \cup {<<a>> : a \in FilterRecords}
            \cup {<<a, b>> : <<a, b>> \in {ab \in FilterRecords \X FilterRecords :
                                                  ab[1] # ab[2]}}

\* The lower bounds: none, the score some records carry, and one between.
FilterBounds == {0, 5000, 5870}

FilterSpecializations == {None, Some("machine")}

NoFilterCall ==
    [op |-> "init", data |-> << >>, bound |-> 0, specialization |-> None,
     tier |-> None, res |-> "returned", list |-> << >>]

InitFilter ==
    /\ store = << >>
    /\ last = NoFilterCall
    /\ calls = 0
    /\ sess = << >>
    /\ start = << >>
    /\ profile = EmptyDict
    /\ results = << >>
    /\ run = << >>
    /\ agent = << >>

FindRelevantJournalists(journalists, min_relevance, specialization_filter) ==
    /\ calls = 0
    /\ \E r \in {find_relevant_journalists(journalists, min_relevance, specialization_filter)} :
          last' = [op |-> "find_relevant_journalists", data |-> journalists,
                   bound |-> min_relevance, specialization |-> specialization_filter,
                   tier |-> None, res |-> r.res, list |-> r.list]
    /\ calls' = calls + 1
    /\ UNCHANGED <<agent, store, sess, start, profile, results, run>>

GetTopJournalistsByCriteria(journalists, min_reputation, specialization, publication_tier) ==
    /\ calls = 0
    /\ \E r \in {get_top_journalists_by_criteria(journalists, min_reputation,
                                                 specialization, publication_tier)} :
          last' = [op |-> "get_top_journalists_by_criteria", data |-> journalists,
                   bound |-> min_reputation, specialization |-> specialization,
                   tier |-> publication_tier, res |-> r.res, list |-> r.list]
    /\ calls' = calls + 1
    /\ UNCHANGED <<agent, store, sess, start, profile, results, run>>

NextFilter ==
    \/ \E js \in FilterLists, m \in FilterBounds, f \in FilterSpecializations :
          FindRelevantJournalists(js, m, f)
    \/ \E js \in FilterLists, m \in FilterBounds, f \in FilterSpecializations,
          t \in {None, Some(1)} :
          GetTopJournalistsByCriteria(js, m, f, t)

SpecFilter == InitFilter /\ [][NextFilter]_vars

---------------------------------------------------------------------------
(* Properties of the filters *)

\* The input records a threshold filter has to return: those whose score
\* under col, computed by the engine when the record carries none, is at
\* least the bound; each as it is after the score was put into it.
Expected(journalists, col, bound) ==
    LET full(d) == IF col = "ai_relevance_score" THEN WithRelevance(d)
                   ELSE WithReputation(d)
    IN {full(journalists[i]) : i \in {k \in 1..Len(journalists) :
                                         full(journalists[k]).v[col][1] >= bound}}

Returned == {last.list[i] : i \in 1..Len(last.list)}

\* C17: called with a lower bound only, find_relevant_journalists and
\* get_top_journalists_by_criteria return exactly the input records whose
\* score is at least the bound, a missing score being computed by the engine
\* before the comparison.
C17_ThresholdFilters ==
    /\ (/\ last.op = "find_relevant_journalists"
        /\ last.res = "returned" /\ ~Given(last.specialization))
       => /\ Returned = Expected(last.data, "ai_relevance_score", last.bound)
          /\ Len(last.list) = Cardinality(Returned)
    /\ (/\ last.op = "get_top_journalists_by_criteria"
        /\ last.res = "returned" /\ ~Given(last.specialization) /\ last.tier = None)
       => /\ Returned = Expected(last.data, "reputation_score", last.bound)
          /\ Len(last.list) = Cardinality(Returned)

---------------------------------------------------------------------------
(* DatabaseManager.search_journalists and
   JournalistFinderAgent.search_by_criteria *)

\* config/settings.py
DEFAULT_MIN_REPUTATION == 1500
DEFAULT_MIN_AI_RELEVANCE == 200

\* s.strip()
RECURSIVE Strip(_)
Strip(s) ==
    IF Len(s) = 0 THEN s
    ELSE IF Char(s, 1) \in Whitespace THEN Strip(Tail(s))
    ELSE IF Char(s, Len(s)) \in Whitespace THEN Strip(SubSeq(s, 1, Len(s) - 1))
    ELSE s

\* [c.strip() for c in country.split(',')]
RECURSIVE SplitCountries(_)
SplitCountries(country) ==
    LET commas == {i \in 1..Len(country) : Char(country, i) = ","}
    IN IF commas = {} THEN <<Strip(country)>>
       ELSE <<Strip(SubSeq(country, 1, Min(commas) - 1))>>
            \o SplitCountries(SubSeq(country, Min(commas) + 1, Len(country)))

\* bool(x) of an optional number
NonZero(o) == o # None /\ o[1] # 0

\* The WHERE clause of search_journalists.  contains() is
\* LIKE '%' || :specialization || '%', which compares ASCII letters without
\* regard to case; a comparison with NULL is not true.
SearchMatches(row, specialization, min_reputation, country, platform) ==
    /\ Truthy(specialization) =>
          /\ row["specializations"] # None
          /\ Contains(ToLower(row["specializations"][1]), ToLower(specialization[1]))
    /\ NonZero(min_reputation) =>
          /\ row["reputation_score"] # None
          /\ row["reputation_score"][1] >= min_reputation[1]
    /\ Truthy(country) =>
          /\ row["country"] # None
          /\ \E i \in 1..Len(SplitCountries(country[1])) :
                row["country"][1] = SplitCountries(country[1])[i]
    /\ Truthy(platform) => row["source_platform"] = platform

\* The key of ORDER BY reputation_score DESC: NULL sorts after every number.
OrderKey(row) ==
    IF row["reputation_score"] = None THEN -1 ELSE row["reputation_score"][1]

\* DatabaseManager.search_journalists: the lists the query can return.  The
\* order of rows with equal reputation is not fixed by the query.
search_journalists(st, specialization, min_reputation, country, platform, limit) ==
    LET matching == {i \in 1..Len(st) :
                        SearchMatches(st[i], specialization, min_reputation,
                                      country, platform)}
        n == Cardinality(matching)
        orders == {q \in [1..n -> matching] :
                      /\ \A i, j \in 1..n : i # j => q[i] # q[j]
                      /\ \A i, j \in 1..n :
                            i < j => OrderKey(st[q[i]]) >= OrderKey(st[q[j]])}
    IN {[k \in 1..Min2(limit, n) |-> st[q[k]]] : q \in orders}

\* The keys of journalist_dict that are columns of the model (id is the
\* position of the row and is left out).
SearchKeys ==
    {"name", "email", "bio", "job_title", "current_publication", "country",
     "reputation_score", "ai_relevance_score", "specializations",
     "source_platform", "twitter_followers", "programming_expertise"}

\* journalist_dict = {'id': journalist.id, 'name': journalist.name, ...}
JournalistDict(row) ==
    [keys |-> SearchKeys,
     v |-> [c \in Columns |->
              IF c = "specializations"
              THEN IF row[c] = None THEN NoSpec ELSE SpecStr(row[c][1])
              ELSE IF c \in SearchKeys THEN row[c] ELSE None]]

RECURSIVE JournalistDicts(_)
JournalistDicts(rows) ==
    IF Len(rows) = 0 THEN << >>
    ELSE <<JournalistDict(Head(rows))>> \o JournalistDicts(Tail(rows))

\* The part of search_by_criteria after the store query: the relevance
\* filter and "relevant_journalists[:limit]"; an exception gives [].
FilterAndLimit(rows, min_ai_relevance, specialization, limit) ==
    CHOOSE out \in
        { IF r.res = "raised" THEN << >>
          ELSE SubSeq(r.list, 1, Min2(limit, Len(r.list))) :
            r \in {find_relevant_journalists(JournalistDicts(rows), min_ai_relevance,
                                             specialization)} } : TRUE

\* JournalistFinderAgent.search_by_criteria: the lists the call can return.
search_by_criteria(st, specialization, min_reputation, min_ai_relevance, country, platform, limit) ==
    LET reputation == IF min_reputation = None THEN DEFAULT_MIN_REPUTATION
                      ELSE min_reputation[1]
        relevance == IF min_ai_relevance = None THEN DEFAULT_MIN_AI_RELEVANCE
                     ELSE min_ai_relevance[1]
    IN { FilterAndLimit(rows, relevance, specialization, limit) :
           rows \in search_journalists(st, specialization, Some(reputation),
                                       country, platform, limit * 2) }

\* Records the scrapers stored, with their scores.
SearchAdds ==
    { Dict([name |-> Some(Ann), reputation_score |-> Some(7000),
            ai_relevance_score |-> Some(3000), country |-> Some("France"),
            source_platform |-> Some("twitter"),
            specializations |-> SpecList(<<"robotics">>)]),
      Dict([name |-> Some(Bo), reputation_score |-> Some(3000),
            ai_relevance_score |-> Some(7000), country |-> Some("Spain"),
            specializations |-> SpecList(<<"Robotics", "nlp">>)]),
      Dict([name |-> Some("Cy Diaz"), reputation_score |-> Some(7000),
            ai_relevance_score |-> Some(5000),
            specializations |-> SpecStr("technology")]),
      Dict([name |-> Some("Di Wu"), country |-> Some("France")]) }

\* The criteria of the calls: each filter alone, none, and several at once.
NoCriteria ==
    [specialization |-> None, min_reputation |-> None, min_ai_relevance |-> None,
     country |-> None, platform |-> None, limit |-> 50]

SearchCriteria ==
    { NoCriteria,
      [NoCriteria EXCEPT !.limit = 1],
      [NoCriteria EXCEPT !.specialization = Some("robotics")],
      [NoCriteria EXCEPT !.min_reputation = Some(0), !.min_ai_relevance = Some(0)],
      [NoCriteria EXCEPT !.min_reputation = Some(5000)],
      [NoCriteria EXCEPT !.min_ai_relevance = Some(5000)],
      [NoCriteria EXCEPT !.country = Some("France")],
      [NoCriteria EXCEPT !.country = Some("France, Spain")],
      [NoCriteria EXCEPT !.platform = Some("twitter")],
      [NoCriteria EXCEPT !.specialization = Some("robotics"),
                         !.min_ai_relevance = Some(5000), !.limit = 1] }

SearchByCriteria(specialization, min_reputation, min_ai_relevance, country, platform, limit) ==
    /\ calls < MaxCalls
    /\ \E list \in search_by_criteria(store, specialization, min_reputation,
                                      min_ai_relevance, country, platform, limit) :
          last' = [op |-> "search_by_criteria", specialization |-> specialization,
                   min_reputation |-> min_reputation,
                   min_ai_relevance |-> min_ai_relevance, country |-> country,
                   platform |-> platform, limit |-> limit, list |-> list]
    /\ calls' = calls + 1
    /\ UNCHANGED <<agent, store, sess, start, profile, results, run>>

NextSearch ==
    \/ \E raw \in SearchAdds : AddJournalist(raw, FALSE)
    \/ \E c \in SearchCriteria :
          SearchByCriteria(c.specialization, c.min_reputation, c.min_ai_relevance,
                           c.country, c.platform, c.limit)

SpecSearch == Init /\ [][NextSearch]_vars

---------------------------------------------------------------------------
(* Properties of search_by_criteria *)

IsSearch == last.op = "search_by_criteria"

\* C18: the list search_by_criteria returns is in non-increasing
\* reputation_score order.
C18_OrderedByReputation ==
    IsSearch =>
        \A i, j \in 1..Len(last.list) :
            i < j => last.list[i].v["reputation_score"][1]
                        >= last.list[j].v["reputation_score"][1]

---------------------------------------------------------------------------
(* Properties of the stored specializations *)

\* The text is a JSON array.
IsJsonArray(text) == JsonLoads(text).kind \in {"list", "mixed"}

\* The call stored the specializations value of its dict: it created the
\* row, or it was update_journalist, or the merge of add_journalist found
\* the column of the matched row empty.
StoresSpecializations ==
    /\ IsAdd \/ IsUpdate
    /\ last.res \in {"created", "updated"}
    /\ "specializations" \in last.data.keys
    /\ last.data.v["specializations"].kind # "none"
    /\ (IsAdd /\ last.res = "updated")
          => ~Populated("specializations", last.pre[LastMatch]["specializations"])

StoredSpecializations == store[last.id]["specializations"]

---------------------------------------------------------------------------
(* JournalistFinderAgent.run_full_search *)

\* The sources in the order run_full_search searches them.
Platforms ==
    <<"newspapers", "twitter", "linkedin", "newsapi", "google_scholar",
      "researchgate", "serper_french">>

PlatformSet == {Platforms[i] : i \in 1..Len(Platforms)}

\* The position after the block of source p: the next source, or the totals.
NextStep(p) ==
    LET i == CHOOSE k \in 1..Len(Platforms) : Platforms[k] = p
    IN IF i = Len(Platforms) THEN "totals" ELSE Platforms[i + 1]

\* d[k] = value
Put(d, k, value) == [x \in DOMAIN d \cup {k} |-> IF x = k THEN value ELSE d[x]]

\* "for journalist_data in found: self._process_and_store_journalist(journalist_data)"
RECURSIVE StoreAll(_, _)
StoreAll(st, found) ==
    IF Len(found) = 0 THEN st
    ELSE StoreAll(process_and_store_journalist(st, Head(found), FALSE).store, Tail(found))

\* What the scraper of a source can return: nothing, or one record.
Found(p) ==
    { << >>,
      <<Dict([name |-> Some(IF p \in {"twitter", "linkedin"} THEN Ann ELSE p),
              source_platform |-> Some(p)])>> }

\* The block of one source whose scraper method catches the exceptions of
\* its queries itself: the search, results['by_platform'][p] = len(found),
\* and the loop that scores and stores the records.
SearchedAs(p, found, r) ==
    /\ store' = StoreAll(store, found)
    /\ results' = [results EXCEPT !.by_platform = Put(@, p, Len(found))]
    /\ run' = [r EXCEPT !.pc = NextStep(p)]
    /\ UNCHANGED <<agent, last, calls, sess, start, profile>>

Searched(p, found) == SearchedAs(p, found, run)

\* "except Exception as e: results['error'] = str(e); return results"
Failed(p) ==
    /\ results' = [results EXCEPT !.error = Some("Error in " \o p)]
    /\ run' = [run EXCEPT !.pc = "returned", !.raised = Some(p)]
    /\ UNCHANGED <<agent, store, last, calls, sess, start, profile>>

\* The sources whose scraper method catches the exceptions of its queries
\* itself (try / except Exception around every query of its loop).
SelfCatching ==
    {"newspapers", "twitter", "google_scholar", "researchgate", "serper_french"}

\* The block of newspapers, Twitter, Google Scholar, ResearchGate or the
\* French search, whichever is next.
SearchSource ==
    \E p \in SelfCatching :
        /\ run.pc = p
        /\ \E found \in Found(p) : Searched(p, found)

\* How "if self.linkedin_api_scraper.is_configured(): try: ... except
\* Exception" can end, and the api_journalists it adds to
\* linkedin_journalists.
ApiCalls(configured) ==
    IF configured
    THEN {[how |-> "raised", list |-> << >>],
          [how |-> "empty", list |-> << >>],
          [how |-> "found",
           list |-> <<Dict([name |-> Some(Bo), source_platform |-> Some("linkedin")])>>]}
    ELSE {[how |-> "not_tried", list |-> << >>]}

\* Mutant: the scraper is the fallback of a missing configuration only.
Fallback_NotConfigured(linkedin_journalists, how) == how = "not_tried"

\* "if not linkedin_journalists:"
Fallback(linkedin_journalists, how) == Len(linkedin_journalists) = 0

\* The LinkedIn block: the API when it is configured (its exception is
\* caught and logged), the scraper when linkedin_journalists is still empty,
\* the count and the loop that scores and stores the records.
SearchLinkedIn ==
    /\ run.pc = "linkedin"
    /\ \E api \in ApiCalls(run.linkedin_api) :
          \E found \in (IF Fallback(api.list, api.how) THEN Found("linkedin")
                        ELSE {api.list}) :
             SearchedAs("linkedin", found,
                        [run EXCEPT !.api = api.how,
                                    !.scraper = Fallback(api.list, api.how)])

\* Without a key the source is skipped and counted as 0.  With a key:
\* search_articles catches httpx.HTTPError only; response.json(), a null
\* "articles" and extract_journalists on an article whose "source" is null
\* raise past it, into the except of run_full_search.
SearchNewsAPI ==
    /\ run.pc = "newsapi"
    /\ \/ \E found \in (IF run.newsapi THEN Found("newsapi") ELSE {<< >>}) :
             Searched("newsapi", found)
       \/ /\ run.newsapi
          /\ Failed("newsapi")

\* results['total_found'] = sum(results['by_platform'].values()); return results
Totals ==
    /\ run.pc = "totals"
    /\ results' = [results EXCEPT
                     !.total_found = SumSeq([i \in 1..Len(Platforms) |->
                                               results.by_platform[Platforms[i]]])]
    /\ run' = [run EXCEPT !.pc = "returned"]
    /\ UNCHANGED <<agent, store, last, calls, sess, start, profile>>

\* NEWSAPI_KEY is set or not, and so are the LinkedIn client id and secret.
InitRun ==
    /\ store = << >>
    /\ last = NoCall
    /\ calls = 0
    /\ sess = << >>
    /\ start = << >>
    /\ profile = EmptyDict
    /\ results = [total_found |-> 0, by_platform |-> << >>, error |-> None]
    /\ run \in {[pc |-> "newspapers", raised |-> None, newsapi |-> a,
                 linkedin_api |-> b, api |-> "pending", scraper |-> FALSE] :
                    a \in BOOLEAN, b \in BOOLEAN}
    /\ agent = << >>

NextRun ==
    \/ SearchSource
    \/ SearchLinkedIn
    \/ SearchNewsAPI
    \/ Totals

SpecRun == InitRun /\ [][NextRun]_vars

---------------------------------------------------------------------------
(* Properties of run_full_search *)

\* The sources that come after source p.
After(p) ==
    {Platforms[j] : j \in {k \in 1..Len(Platforms) :
                              \E i \in 1..(k - 1) : Platforms[i] = p}}

\* C19: when the scraper of one source has raised, the run returns with the
\* sources after it searched, and with an error only if no source produced
\* a record.
C19_SourceFailureNonFatal ==
    (run.pc = "returned" /\ run.raised # None)
    => /\ After(run.raised[1]) \subseteq DOMAIN results.by_platform
       /\ results.error # None
             => \A p \in DOMAIN results.by_platform : results.by_platform[p] = 0

\* C28: the LinkedIn API is tried when it is configured, the scraper is
\* invoked if and only if the API path yielded no journalists (not
\* configured, raised, or returned an empty list), and an exception of the
\* API call does not abort the run.
C28_LinkedInFallback ==
    "linkedin" \in DOMAIN results.by_platform
    => /\ run.linkedin_api <=> run.api # "not_tried"
       /\ run.scraper <=> run.api \in {"not_tried", "raised", "empty"}
       /\ run.api = "raised" => run.raised # Some("linkedin")

\* The API raised, the scraper was invoked and found a record, and the run
\* went on to its end.
C28_Witness ==
    /\ run.api = "raised" /\ run.scraper
    /\ results.by_platform["linkedin"] = 1
    /\ run.pc = "returned" /\ run.raised = None

---------------------------------------------------------------------------
(* Properties of the reputation components *)

\* The six component scores calculate_reputation_score computes from a
\* profile before it weights them: article, social, engagement, publication,
\* expertise and academic.
ReputationComponents(d) ==
    <<CalculateArticleScore(OrZero(Get(d, "article_count"))),
      CalculateSocialScore(OrZero(Get(d, "twitter_followers")),
                           OrZero(Get(d, "linkedin_connections"))),
      CalculateEngagementScore(d),
      CalculatePublicationQualityScore(GetOrEmpty(d, "current_publication")),
      CalculateExpertiseScore(OrZero(Get(d, "ai_relevance_score")), d),
      CalculateAcademicScore(OrZero(Get(d, "citation_count")),
                             OrZero(Get(d, "h_index")),
                             OrZero(Get(d, "publication_count")))>>

\* C22: for every profile the engine scores, negative counts included, each
\* of the six reputation components lies in [0, 1] before it is weighted.
C22_ComponentsInUnit ==
    \A i \in 1..Len(results) :
        (IsReputation(results[i]) /\ ~results[i].caught)
        => \A k \in 1..6 : ReputationComponents(results[i].given)[k] \in 0..Unit

\* The engagement score as the claim gives it for a follower count f.
EngagementOf(f, d) ==
    LET base == IF f < 1000 THEN 8000
                ELSE IF f < 10000 THEN 6000
                ELSE IF f < 100000 THEN 4000
                ELSE 2000
        verified == IF IsTrue(Get(d, "is_verified")) THEN 1000 ELSE 0
        major == IF IsMajorPublication(GetOrEmpty(d, "current_publication"))
                 THEN 1000 ELSE 0
    IN Min2(base + verified + major, Unit)

\* C23: for a profile that holds a follower count f the engagement score is
\* min(base(f) + 0.1 [verified] + 0.1 [major outlet], 1.0), and it is the
\* default 0.5 exactly when the profile holds no follower count.
C23_EngagementScore ==
    \A i \in 1..Len(results) :
        (IsReputation(results[i]) /\ ~results[i].caught)
        => LET d == results[i].given
           IN CalculateEngagementScore(d)
                 = IF "twitter_followers" \in d.keys
                   THEN EngagementOf(d.v["twitter_followers"][1], d)
                   ELSE 5000

---------------------------------------------------------------------------
(* ReputationAnalyzer._calculate_publication_quality_score, called on
   publication names *)

\* Publication names: absent, empty, blank, of one rule, of several rules,
\* of none.
Publications ==
    {None, Some(""), Some(" "), Some("WIRED"), Some("Wired University"),
     Some("Forbes at Wired"), Some("MIT Technology Review research"),
     Some("TechRadar Institute"), Some("ZDNet TechRadar"), Some("Fortune"),
     Some("Stanford University"), Some("Local Gazette")}

InitPublication ==
    /\ store = << >>
    /\ last = NoCall
    /\ calls = 0
    /\ sess = << >>
    /\ start = << >>
    /\ profile = EmptyDict
    /\ results = << >>
    /\ run = << >>
    /\ agent = << >>

\* score = analyzer._calculate_publication_quality_score(publication)
ScorePublication(publication) ==
    /\ Len(results) < MaxScored
    /\ results' = Append(results,
                         [engine |-> "_calculate_publication_quality_score",
                          given |-> publication,
                          value |-> CalculatePublicationQualityScore(publication)])
    /\ UNCHANGED <<agent, store, last, calls, sess, start, profile, run>>

NextPublication == \E publication \in Publications : ScorePublication(publication)

SpecPublication == InitPublication /\ [][NextPublication]_vars

\* The rules of the claim in their order: the names looked for, the value.
PublicationRules ==
    <<[names |-> tier1_publications, value |-> Unit],
      [names |-> tier2_publications, value |-> 8000],
      [names |-> tier3_publications, value |-> 6000],
      [names |-> academic_keywords, value |-> 7000]>>

\* The rules that apply to a name.
Applying(name) ==
    {k \in 1..Len(PublicationRules) :
        \E n \in PublicationRules[k].names : Contains(ToLower(name), n)}

\* C24: the publication score is 0.3 exactly for an empty or absent
\* publication; otherwise it is the value of the first rule that applies in
\* the order tier 1 (1.0), tier 2 (0.8), tier 3 (0.6), academic keyword
\* (0.7), and 0.4 when none applies.
C24_PublicationPrecedence ==
    \A i \in 1..Len(results) :
        LET publication == results[i].given
            value == results[i].value
        IN /\ value \in {Unit, 8000, 7000, 6000, 4000, 3000}
           /\ value = 3000 <=> (publication = None \/ publication = Some(""))
           /\ (publication # None /\ publication # Some(""))
                 => value = IF Applying(publication[1]) = {} THEN 4000
                            ELSE PublicationRules[Min(Applying(publication[1]))].value

\* A name with a tier 3 name and an academic keyword in it was scored 0.6,
\* and a name with a tier 1 and a tier 2 name in it 1.0.
C24_Witness ==
    /\ Len(results) = 2
    /\ results[1].given = Some("TechRadar Institute") /\ results[1].value = 6000
    /\ results[2].given = Some("Forbes at Wired") /\ results[2].value = Unit

---------------------------------------------------------------------------
(* The store modified through add_journalist only *)

BoMail == "bo@example.com"

\* Sightings of two people, with and without an email, with the name the
\* scraper could not read left empty or blank.
SightingInputs ==
    { Dict([name |-> Some(Ann)]),
      Dict([name |-> Some(Ann), email |-> Some(AnnMail)]),
      Dict([name |-> Some(Ann), email |-> Some(BoMail)]),
      Dict([name |-> Some(Bo)]),
      Dict([name |-> Some(Bo), email |-> Some(BoMail)]),
      Dict([name |-> Some(""), email |-> Some(AnnMail)]),
      Dict([name |-> Some(" "), email |-> Some(BoMail)]) }

NextAdds == \E raw \in SightingInputs : AddJournalist(raw, FALSE)

SpecAdds == Init /\ [][NextAdds]_vars

\* C25: under sequential add_journalist calls no two stored records have
\* the same non-empty name.
C25_NamesUnique ==
    \A i, j \in 1..Len(store) :
        (i # j /\ store[i]["name"] # None /\ store[i]["name"] # Some(""))
            => store[i]["name"] # store[j]["name"]

---------------------------------------------------------------------------
(* Metrics and flags under add_journalist *)

---------------------------------------------------------------------------
(* search_by_criteria under its limit *)

\* Searches with a limit below, at and above the number of stored records.
LimitCriteria ==
    { [NoCriteria EXCEPT !.limit = 1],
      [NoCriteria EXCEPT !.min_ai_relevance = Some(6000), !.limit = 1],
      [NoCriteria EXCEPT !.min_ai_relevance = Some(6000), !.limit = 2],
      [NoCriteria EXCEPT !.min_reputation = Some(5000), !.limit = 1],
      [NoCriteria EXCEPT !.country = Some("France"), !.limit = 50],
      [NoCriteria EXCEPT !.specialization = Some("robotics"), !.limit = 2] }

\* A search of the store as the ingestion left it; the search writes nothing.
SearchStored(specialization, min_reputation, min_ai_relevance, country, platform, limit) ==
    /\ \E list \in search_by_criteria(store, specialization, min_reputation,
                                      min_ai_relevance, country, platform, limit) :
          last' = [op |-> "search_by_criteria", specialization |-> specialization,
                   min_reputation |-> min_reputation,
                   min_ai_relevance |-> min_ai_relevance, country |-> country,
                   platform |-> platform, limit |-> limit, list |-> list]
    /\ UNCHANGED <<agent, store, calls, sess, start, profile, results, run>>

NextLimit ==
    \/ \E raw \in SearchAdds : AddJournalist(raw, FALSE)
    \/ \E c \in LimitCriteria :
          SearchStored(c.specialization, c.min_reputation, c.min_ai_relevance,
                       c.country, c.platform, c.limit)

SpecLimit == Init /\ [][NextLimit]_vars

\* The stored records that satisfy all the criteria of the last search:
\* the thresholds are the ones given or the defaults of the signature.
Satisfying ==
    {i \in 1..Len(store) :
        /\ SearchMatches(store[i], last.specialization,
                         Some(IF last.min_reputation = None THEN DEFAULT_MIN_REPUTATION
                              ELSE last.min_reputation[1]),
                         last.country, last.platform)
        /\ store[i]["ai_relevance_score"] # None
        /\ store[i]["ai_relevance_score"][1] >=
              IF last.min_ai_relevance = None THEN DEFAULT_MIN_AI_RELEVANCE
              ELSE last.min_ai_relevance[1]}

\* C27: search_by_criteria(limit=L) returns min(L, n) records, n being the
\* number of stored records that satisfy all the given criteria.
C27_CompleteUnderLimit ==
    IsSearch => Len(last.list) = Min2(last.limit, Cardinality(Satisfying))

---------------------------------------------------------------------------
(* RevolutionaryBaseAgent: the main worker, the retry threads and the
   control operations *)

\* Executions of the task's function after which the model stops counting.
MaxExecutions == 7

\* SuperTask.max_retries: int = 5
DefaultMaxRetries == 5

\* SuperTask(id=..., name=..., function=..., priority=..., **kwargs): the
\* fields the retry logic reads.  retry_count starts at 0.
SuperTask(max_retries) == [retry_count |-> 0, max_retries |-> max_retries]

\* add_task: a new SuperTask is put on the queue (one priority, so the
\* queue is first in, first out).
add_task(task_queue, max_retries) == Append(task_queue, SuperTask(max_retries))

\* The errors _should_retry_intelligently does not retry.
non_retryable_errors ==
    {"ValidationError", "SecurityError", "PermissionError", "FileNotFoundError"}

\* How an execution of the function can end: it returns, or raises.
Outcomes == {"returned", "ConnectionError", "PermissionError"}

\* _should_retry_intelligently
ShouldRetryIntelligently(task, error) ==
    IF task.retry_count >= task.max_retries THEN FALSE
    ELSE error \notin non_retryable_errors

\* The agent after __init__: READY, nothing queued, the main worker at the
\* top of its loop.
InitAgent ==
    /\ store = << >>
    /\ last = NoCall
    /\ calls = 0
    /\ sess = << >>
    /\ start = << >>
    /\ profile = EmptyDict
    /\ results = << >>
    /\ run = << >>
    /\ agent = [status |-> "ready", stop_event |-> FALSE, pause_event |-> FALSE,
                task_queue |-> << >>, pc |-> "loop", task |-> None,
                retry_threads |-> 0, executions |-> 0, all_failed |-> TRUE,
                submitted |-> None, control |-> "none"]

\* The caller submits the task: add_task(task_func) or
\* add_task(task_func, max_retries=n).
AddTask(max_retries) ==
    /\ agent.submitted = None
    /\ agent' = [agent EXCEPT !.task_queue = add_task(@, max_retries),
                              !.submitted = Some(max_retries)]
    /\ UNCHANGED <<store, last, calls, sess, start, profile, results, run>>

\* _main_worker_loop, "while not self.stop_event.is_set()" found false.
WorkerExit ==
    /\ agent.pc = "loop"
    /\ agent.stop_event
    /\ agent' = [agent EXCEPT !.pc = "exited"]
    /\ UNCHANGED <<store, last, calls, sess, start, profile, results, run>>

\* _main_worker_loop up to the task _get_next_optimal_task returns; while
\* the agent is paused or the queue is empty the worker sleeps and loops.
GetNextOptimalTask ==
    /\ agent.pc = "loop"
    /\ ~agent.stop_event
    /\ ~agent.pause_event
    /\ Len(agent.task_queue) > 0
    /\ agent' = [agent EXCEPT !.task = Some(Head(agent.task_queue)),
                              !.task_queue = Tail(@), !.pc = "execute"]
    /\ UNCHANGED <<store, last, calls, sess, start, profile, results, run>>

\* _execute_revolutionary_task, its first statement:
\* self.status = AgentStatus.WORKING
ExecuteRevolutionaryTask ==
    /\ agent.pc = "execute"
    /\ agent' = [agent EXCEPT !.status = "working", !.pc = "running"]
    /\ UNCHANGED <<store, last, calls, sess, start, profile, results, run>>

\* The try block: _monitored_execution runs the function; on an exception
\* the failure is recorded and, if _should_retry_intelligently says so,
\* _schedule_intelligent_retry counts the retry on the task and starts the
\* retry thread.
MonitoredExecution(outcome) ==
    /\ agent.pc = "running"
    /\ agent.executions < MaxExecutions
    /\ LET task == agent.task[1]
           retry == outcome # "returned" /\ ShouldRetryIntelligently(task, outcome)
       IN agent' = [agent EXCEPT
                      !.executions = @ + 1,
                      !.all_failed = @ /\ outcome = "ConnectionError",
                      !.task = IF retry
                               THEN Some([task EXCEPT !.retry_count = @ + 1])
                               ELSE @,
                      !.retry_threads = IF retry THEN @ + 1 ELSE @,
                      !.pc = "finally"]
    /\ UNCHANGED <<store, last, calls, sess, start, profile, results, run>>

\* "finally: self.active_tasks.pop(task.id, None);
\*  self.status = AgentStatus.READY", and back to the top of the loop.
Finally ==
    /\ agent.pc = "finally"
    /\ agent' = [agent EXCEPT !.status = "ready", !.task = None, !.pc = "loop"]
    /\ UNCHANGED <<store, last, calls, sess, start, profile, results, run>>

\* retry_task of a retry thread, after its sleep:
\* self.add_task(task.function, task.priority, task.name, **task.kwargs).
\* task.kwargs is the field of the dataclass, empty by default: the new
\* SuperTask takes the defaults for retry_count and max_retries.
RetryTask ==
    /\ agent.retry_threads > 0
    /\ agent' = [agent EXCEPT !.task_queue = add_task(@, DefaultMaxRetries),
                              !.retry_threads = @ - 1]
    /\ UNCHANGED <<store, last, calls, sess, start, profile, results, run>>

\* pause()
Pause ==
    /\ agent' = [agent EXCEPT !.pause_event = TRUE, !.status = "paused",
                              !.control = "pause"]
    /\ UNCHANGED <<store, last, calls, sess, start, profile, results, run>>

\* resume()
Resume ==
    /\ agent' = [agent EXCEPT !.pause_event = FALSE, !.status = "ready",
                              !.control = "resume"]
    /\ UNCHANGED <<store, last, calls, sess, start, profile, results, run>>

\* stop(): the event and the status; the joins that follow wait for the
\* workers for at most 5 seconds each and write nothing.
Stop ==
    /\ agent' = [agent EXCEPT !.stop_event = TRUE, !.status = "stopped",
                              !.control = "stop"]
    /\ UNCHANGED <<store, last, calls, sess, start, profile, results, run>>

NextAgent ==
    \/ \E max_retries \in {0, 1, DefaultMaxRetries} : AddTask(max_retries)
    \/ WorkerExit
    \/ GetNextOptimalTask
    \/ ExecuteRevolutionaryTask
    \/ \E outcome \in Outcomes : MonitoredExecution(outcome)
    \/ Finally
    \/ RetryTask
    \/ Pause
    \/ Resume
    \/ Stop

SpecAgent == InitAgent /\ [][NextAgent]_vars

\* C29: a submitted task whose function fails with a retryable error on
\* every execution is executed at most max_retries + 1 times in total.
C29_BoundedRetry ==
    (agent.submitted # None /\ agent.all_failed)
    => agent.executions <= agent.submitted[1] + 1

\* C30: a status set by a control operation is not overwritten by the
\* worker: after stop() the status is STOPPED, after pause() and until the
\* next control call it is PAUSED, whatever the worker is executing.
C30_StatusKept ==
    /\ agent.control = "stop" => agent.status = "stopped"
    /\ agent.control = "pause" => agent.status = "paused"
====
